---- MODULE Spec2Model ----
(***************************************************************************)
(* MagicMentor: the per-user persistent memory store (UserMemory), the     *)
(* learning agent's calls on it, the assessment marker parser, the         *)
(* assessment quiz driven by the Streamlit page, and build_gap_entries.    *)
(*                                                                         *)
(* Model text is a sequence of tokens.  A protocol marker, a reasoning     *)
(* delimiter and a numeral are one token each; brackets, quotes, slashes   *)
(* and blanks are single-character tokens, so every scan the code does     *)
(* character by character is done here token by token.                     *)
(***************************************************************************)
EXTENDS Integers, Sequences, FiniteSets, TLC

VARIABLES
    data,      \* UserMemory._data of the live store instance
    file,      \* memory.json: [exists, content]
    log,       \* memory_log.jsonl: records appended so far
    flushed,   \* the records written to memory.json by the last call, in order
    now,       \* datetime.utcnow(), the time of the run
    inp,       \* argument of the pure function under analysis
    out,       \* its result
    quiz,      \* st.session_state quiz_* keys of the assessment page
    mem2,      \* UserMemory._data of a second instance over the same directory
    vec        \* VectorMemory: installed packages, chroma directory, instance

vars == <<data, file, log, flushed, now, inp, out, quiz, mem2, vec>>

(***************************************************************************)
(* Bounds of the model                                                     *)
(***************************************************************************)
MaxCompleted == 2    \* mark_skill_completed calls explored per behaviour
MaxSkillLog  == 2    \* audit records explored in the skill-ledger behaviours
MaxNoteLog   == 22   \* audit records explored in the retention behaviours
MaxThinkLen  == 4    \* tokens of a text given to _strip_think
MaxScalarLen == 6    \* tokens of a text given to the scalar extraction
MaxMapLen    == 3    \* entries of a subtopic-score map given to build_gap_entries
MaxTurns     == 2    \* answers given in one assessment session
MaxStored    == 9    \* entries of a stored list given to build_context_prompt
MaxInterfaceLog == 2 \* audit records explored over the whole store interface
MaxInterfaceSummaries == 1 \* session summaries explored over the interface
MaxConsolidateLog == 2 \* audit records present before a direct update_profile
MaxConsolidations == 1 \* consolidations explored per behaviour
MaxReplyLen  == 3    \* tokens of a gateway reply
MaxInterview == 9    \* answers explored in one interview
MaxAssessments == 2  \* assessments saved in one behaviour
MaxDocs      == 2    \* documents stored in the episodic collection
MaxTime      == 1    \* clock ticks explored
MaxPromptCalls == 2  \* build_context_prompt calls explored per behaviour

(***************************************************************************)
(* Program constants                                                       *)
(***************************************************************************)
NOTES_KEPT      == 20   \* mentor_notes[-20:]
SUMMARIES_KEPT  == 10   \* session_summaries[-10:]
PASS_SCORE      == 70   \* continue_learning: quiz_score >= 70
GAP_THRESHOLD   == 70   \* build_gap_entries: v < 70
HIGH_DEMAND     == 50   \* build_gap_entries: overall_score < 50
QUIZ_QUESTIONS  == 8    \* _assess_quizzing: st.progress(min(q_count / 8, 1.0))
LOW_CONF_SCORE  == 25   \* _assess_quizzing: quiz_last_q_score = 25
SKILLS_SHOWN    == 8    \* build_context_prompt: current_skills[:8]
COMPLETED_SHOWN == 5    \* build_context_prompt: completed[-5:]
NOTES_SHOWN     == 3    \* build_context_prompt: mentor_notes[-3:]
SESSIONS_SHOWN  == 2    \* build_context_prompt: session_summaries[-2:]
GOALS_SHOWN     == 3    \* build_context_prompt: career_goals[:3]
SUMMARY_SHOWN   == 120  \* build_context_prompt: summary[:120]

None == "None"

(***************************************************************************)
(* Sequence helpers                                                        *)
(***************************************************************************)
Range(s) == {s[i] : i \in 1..Len(s)}

Max(a, b) == IF a >= b THEN a ELSE b

\* Python s[-n:]
LastN(s, n) == SubSeq(s, Max(1, Len(s) - n + 1), Len(s))

\* Python s[:n]
FirstN(s, n) == SubSeq(s, 1, IF Len(s) < n THEN Len(s) ELSE n)

Names(s) == {s[i].name : i \in 1..Len(s)}

(***************************************************************************)
(* UserMemory: record layout, load and save                                *)
(***************************************************************************)
_default_structure ==
    [ created_at        |-> now,
      updated_at        |-> now,
      profile           |-> [ name |-> None, email |-> None, location |-> None,
                              years_experience |-> 0,
                              current_role |-> None, target_role |-> None ],
      skills            |-> [ current |-> <<>>, learning |-> <<>>,
                              completed |-> <<>>, targets |-> <<>> ],
      mentor_notes      |-> <<>>,
      learning_history  |-> <<>>,
      last_mentor_analysis |-> [ skill_gaps |-> <<>>, learning_roadmap |-> <<>>,
                                 recommended_roles |-> <<>> ],
      preferences       |-> [ learning_style |-> None, preferred_topics |-> <<>>,
                              career_goals |-> <<>>, concerns |-> <<>> ],
      session_summaries |-> <<>> ]

NoFile == [exists |-> FALSE, content |-> <<>>]

\* _load: the stored document if memory.json exists, else the default one.
\* Every value the store keeps is a JSON string, number, list or object with
\* string keys, which json.dump / json.load give back unchanged.
_load(f) == IF f.exists THEN f.content ELSE _default_structure

\* save: stamp updated_at, overwrite memory.json with the whole record
Stamp(d) == [d EXCEPT !.updated_at = now]

\* log_event
log_event(type, content) == [timestamp |-> now, type |-> type, content |-> content]

\* A handler that changed _data to d, appended the records evs to the audit
\* log and called save() once at its end.
Commit(d, evs) ==
    /\ data'    = Stamp(d)
    /\ file'    = [exists |-> TRUE, content |-> Stamp(d)]
    /\ flushed' = <<Stamp(d)>>
    /\ log'     = log \o evs

(***************************************************************************)
(* UserMemory mutators, as functions of the record                         *)
(***************************************************************************)
\* update_skills that rebuilds the skill ledger from its arguments
SkillsUpdated_RebuildsLedger(d, current, targets) ==
    [d EXCEPT !.skills = [current |-> current, learning |-> @.learning,
                          completed |-> <<>>, targets |-> targets]]

\* update_skills: a list replaces the bucket only when it is non-empty
SkillsUpdated(d, current, targets) ==
    [d EXCEPT !.skills.current = IF current # <<>> THEN current ELSE @,
              !.skills.targets = IF targets # <<>> THEN targets ELSE @]

\* mark_skill_completed without the removal from learning
SkillCompleted_KeepsLearning(d, skill_name, score) ==
    [d EXCEPT !.skills.completed = Append(@, [name |-> skill_name,
                                              score |-> score,
                                              completed_at |-> now])]

\* mark_skill_completed: drop every learning entry of that name, append to
\* completed
SkillCompleted(d, skill_name, score) ==
    LET keep(s) == s.name # skill_name
    IN  [d EXCEPT !.skills.learning  = SelectSeq(@, keep),
                  !.skills.completed = Append(@, [name |-> skill_name,
                                                  score |-> score,
                                                  completed_at |-> now])]

\* add_mentor_note with the slice off by one
NoteAdded_OffByOne(d, note) ==
    [d EXCEPT !.mentor_notes =
        LastN(Append(@, [date |-> now, note |-> note]), NOTES_KEPT + 1)]

\* add_mentor_note: append, then keep the last 20
NoteAdded(d, note) ==
    [d EXCEPT !.mentor_notes =
        LastN(Append(@, [date |-> now, note |-> note]), NOTES_KEPT)]

\* add_session_summary: append, then keep the last 10
SummaryAdded(d, session_type, summary, key_insights) ==
    [d EXCEPT !.session_summaries =
        LastN(Append(@, [date |-> now, type |-> session_type,
                         summary |-> summary, key_insights |-> key_insights]),
              SUMMARIES_KEPT)]

(***************************************************************************)
(* Text: tokens, str.split, str.strip, the `in` test                       *)
(***************************************************************************)
Blank == " "
Quote == "\""

\* marker in text
Contains(text, tok) == \E i \in 1..Len(text) : text[i] = tok

\* position of the first occurrence (0 when there is none)
IndexOf(text, tok) ==
    IF Contains(text, tok)
    THEN CHOOSE i \in 1..Len(text) :
            /\ text[i] = tok
            /\ \A j \in 1..(i - 1) : text[j] # tok
    ELSE 0

\* text.split(tok)[0]
Before(text, tok) ==
    IF Contains(text, tok) THEN SubSeq(text, 1, IndexOf(text, tok) - 1) ELSE text

\* text.split(tok, 1)[1], for a text that contains tok
After(text, tok) == SubSeq(text, IndexOf(text, tok) + 1, Len(text))

\* text.split(tok)[1]: what lies between the first occurrence and the next
Between(text, tok) == Before(After(text, tok), tok)

RECURSIVE LStrip(_)
LStrip(text) ==
    IF text # <<>> /\ Head(text) = Blank THEN LStrip(Tail(text)) ELSE text

RECURSIVE RStrip(_)
RStrip(text) ==
    IF text # <<>> /\ text[Len(text)] = Blank
    THEN RStrip(SubSeq(text, 1, Len(text) - 1))
    ELSE text

Strip(text) == LStrip(RStrip(text))

(***************************************************************************)
(* Numerals and int()                                                      *)
(***************************************************************************)
Numerals == {"0", "1", "2", "7", "25", "40", "55", "69", "70", "71", "85", "100"}

NumVal(tok) ==
    CASE tok = "0"   -> 0
      [] tok = "1"   -> 1
      [] tok = "2"   -> 2
      [] tok = "7"   -> 7
      [] tok = "25"  -> 25
      [] tok = "40"  -> 40
      [] tok = "55"  -> 55
      [] tok = "69"  -> 69
      [] tok = "70"  -> 70
      [] tok = "71"  -> 71
      [] tok = "85"  -> 85
      [] tok = "100" -> 100

NumTok(n) == CHOOSE tok \in Numerals : NumVal(tok) = n

Width(tok) == IF NumVal(tok) < 10 THEN 1 ELSE IF NumVal(tok) < 100 THEN 2 ELSE 3

Pow10(tok) == IF Width(tok) = 1 THEN 10 ELSE IF Width(tok) = 2 THEN 100 ELSE 1000

RECURSIVE DigitCount(_)
DigitCount(toks) ==
    IF toks = <<>> THEN 0 ELSE Width(Head(toks)) + DigitCount(Tail(toks))

\* the number written by consecutive numeral tokens
RECURSIVE DigitsValue(_, _)
DigitsValue(toks, acc) ==
    IF toks = <<>> THEN acc
    ELSE DigitsValue(Tail(toks), acc * Pow10(Head(toks)) + NumVal(Head(toks)))

\* Python integers have no width; the model keeps them exact up to nine
\* digits and writes HugeInt for any longer numeral
HugeInt == 2147483647

\* int(s): blanks around the digits are ignored; anything else is a ValueError
IntParse(s) ==
    LET t == Strip(s)
    IN  IF t # <<>> /\ \A i \in 1..Len(t) : t[i] \in Numerals
        THEN [err |-> "ok",
              val |-> IF DigitCount(t) <= 9 THEN DigitsValue(t, 0) ELSE HugeInt]
        ELSE [err |-> "ValueError", val |-> 0]

(***************************************************************************)
(* Optional integers and the scalar markers                                *)
(***************************************************************************)
NoneInt   == [kind |-> "none",   val |-> 0]
Some(n)   == [kind |-> "int",    val |-> n]
RaisedInt == [kind |-> "raised", val |-> 0]

\* except (IndexError, ValueError): pass
ScalarCaught == {"IndexError", "ValueError"}

\* continue_assessment / continue_learning / run_final_validation:
\*   if marker in text:
\*       try: s = text.split(marker)[1].split("]")[0]; v = int(s.strip().split("/")[0])
\*       except (IndexError, ValueError): pass
ExtractScalar(text, marker) ==
    IF ~Contains(text, marker) THEN NoneInt
    ELSE LET payload == Before(Between(text, marker), "]")
             r       == IntParse(Before(Strip(payload), "/"))
         IN  IF r.err = "ok" THEN Some(r.val)
             ELSE IF r.err \in ScalarCaught THEN NoneInt
             ELSE RaisedInt

(***************************************************************************)
(* _strip_think                                                            *)
(***************************************************************************)
THINK_OPEN  == "<think>"
THINK_CLOSE == "</think>"

\* _strip_think that keeps an unclosed block
_strip_think_PassThrough(text) ==
    IF Contains(text, THINK_CLOSE) THEN Strip(After(text, THINK_CLOSE))
    ELSE text

_strip_think(text) ==
    IF Contains(text, THINK_CLOSE) THEN Strip(After(text, THINK_CLOSE))
    ELSE IF Contains(text, THINK_OPEN) THEN Strip(Before(text, THINK_OPEN))
    ELSE text

(***************************************************************************)
(* JSON documents, their text, json.loads                                  *)
(***************************************************************************)
JNone    == [kind |-> "none", n |-> 0, s |-> <<>>, xs |-> <<>>, ps |-> <<>>]
JNum(n)  == [kind |-> "num",  n |-> n, s |-> <<>>, xs |-> <<>>, ps |-> <<>>]
JStr(s)  == [kind |-> "str",  n |-> 0, s |-> s,    xs |-> <<>>, ps |-> <<>>]
JArr(xs) == [kind |-> "arr",  n |-> 0, s |-> <<>>, xs |-> xs,   ps |-> <<>>]
JObj(ps) == [kind |-> "obj",  n |-> 0, s |-> <<>>, xs |-> <<>>, ps |-> ps]

Pair(k, v) == [k |-> k, v |-> v]

\* the text of a document, one token per character outside numerals and words
RECURSIVE Dump(_), DumpItems(_), DumpPairs(_)
Dump(v) ==
    CASE v.kind = "num" -> <<NumTok(v.n)>>
      [] v.kind = "str" -> <<Quote>> \o v.s \o <<Quote>>
      [] v.kind = "arr" -> <<"[">> \o DumpItems(v.xs) \o <<"]">>
      [] v.kind = "obj" -> <<"{">> \o DumpPairs(v.ps) \o <<"}">>

DumpItems(xs) ==
    IF xs = <<>> THEN <<>>
    ELSE Dump(Head(xs)) \o
         (IF Tail(xs) = <<>> THEN <<>> ELSE <<",">> \o DumpItems(Tail(xs)))

DumpPairs(ps) ==
    IF ps = <<>> THEN <<>>
    ELSE <<Quote, Head(ps).k, Quote, ":">> \o Dump(Head(ps).v) \o
         (IF Tail(ps) = <<>> THEN <<>> ELSE <<",">> \o DumpPairs(Tail(ps)))

\* string contents: a word, or brackets and braces in a string
StrContents == { <<"x">>, <<"[">>, <<"]">>, <<"{">>, <<"}">>, <<"[", "x", "]">> }

Leaves == {JNum(7)} \cup {JStr(c) : c \in StrContents}

Inner ==
    {JArr(<<>>), JArr(<<JNum(7), JNum(40)>>)}
    \cup {JArr(<<l>>) : l \in Leaves}
    \cup {JObj(<<Pair("B", l)>>) : l \in Leaves}

\* objects and arrays that contain an object or an array
NestedPayloads ==
    {JObj(<<Pair("A", JNum(7)), Pair("arr", i)>>) : i \in Inner}
    \cup {JArr(<<i>>) : i \in Inner}
    \cup {JArr(<<JStr(<<"x">>), i>>) : i \in Inner}

\* the score maps and gap lists the assessor's replies carry
ScorePayloads ==
    { JObj(<<Pair("JOINs", JNum(40))>>),
      JObj(<<Pair("JOINs", JNum(40)), Pair("CTEs", JNum(70))>>),
      JObj(<<Pair("CTEs", JNum(85))>>),
      JObj(<<Pair("JOINs", JNum(25))>>) }

GapPayloads == { JArr(<<JStr(<<"JOINs", ":", "x">>)>>) }

JsonDocs == NestedPayloads \cup ScorePayloads \cup GapPayloads

\* json.loads: the document whose text this is; any other text is a
\* JSONDecodeError.  Every text handed to it here starts with the text of a
\* document of JsonDocs, and no document text is a proper prefix of another.
Loads(text) ==
    IF \E v \in JsonDocs : Dump(v) = text
    THEN [err |-> "ok", val |-> CHOOSE v \in JsonDocs : Dump(v) = text]
    ELSE [err |-> "JSONDecodeError", val |-> JNone]

(***************************************************************************)
(* _extract_bracketed_json                                                 *)
(***************************************************************************)
\* the for loop of lines 107-114: 0 when the depth never returns to zero,
\* else the position of the closing symbol that brings it back
RECURSIVE ScanEnd(_, _, _, _, _)
ScanEnd(after, i, depth, open_ch, close_ch) ==
    IF i > Len(after) THEN 0
    ELSE IF after[i] = open_ch THEN ScanEnd(after, i + 1, depth + 1, open_ch, close_ch)
    ELSE IF after[i] = close_ch
         THEN IF depth - 1 = 0 THEN i
              ELSE ScanEnd(after, i + 1, depth - 1, open_ch, close_ch)
    ELSE ScanEnd(after, i + 1, depth, open_ch, close_ch)

_extract_bracketed_json(text, marker) ==
    IF ~Contains(text, marker) THEN JNone
    ELSE LET after == LStrip(After(text, marker))
         IN  IF after = <<>> THEN JNone
             ELSE IF after[1] \notin {"{", "["} THEN JNone
             ELSE LET open_ch  == after[1]
                      close_ch == IF open_ch = "{" THEN "}" ELSE "]"
                      end_idx  == ScanEnd(after, 1, 0, open_ch, close_ch)
                  IN  IF end_idx = 0 THEN JNone
                      ELSE Loads(SubSeq(after, 1, end_idx)).val

(***************************************************************************)
(* Learning agent: model replies and what the agent reads from them        *)
(***************************************************************************)
SkillNames == {"sql", "dax"}
Levels     == {"beginner"}

LearnResponses ==
    { <<"ok">>,
      <<"[QUIZ_SCORE:", Blank, "85", "/", "100", "]">>,
      <<"[QUIZ_SCORE:", Blank, "85", "/", "100", "]", "[SESSION_COMPLETE]">>,
      <<"[QUIZ_SCORE:", Blank, "40", "/", "100", "]", "[SESSION_COMPLETE]">>,
      <<"[SESSION_COMPLETE]">> }

ValidationResponses ==
    { <<"ok">>,
      <<"[FINAL_SCORE:", Blank, "85", "/", "100", "]", "[READY_FOR_CV: yes]">>,
      <<"[FINAL_SCORE:", Blank, "40", "/", "100", "]">>,
      <<"[FINAL_SCORE:", Blank, "0", "/", "100", "]">> }

\* str.lower(), on the tokens that have upper-case letters
LowerTok(tok) ==
    CASE tok = "[READY_FOR_CV: yes]" -> "[ready_for_cv: yes]"
      [] tok = "[FINAL_SCORE:"       -> "[final_score:"
      [] tok = "JOINs"               -> "joins"
      [] tok = "CTEs"                -> "ctes"
      [] tok = "Indexes"             -> "indexes"
      [] tok = "Window Functions"    -> "window functions"
      [] tok = "Query Optimisation"  -> "query optimisation"
      [] tok = "SQL"                 -> "sql"
      [] OTHER                       -> tok

Lower(text) == [i \in 1..Len(text) |-> LowerTok(text[i])]

\* Python truthiness of an optional int
Truthy(x) == x.kind = "int" /\ x.val # 0

BoolText(b) == IF b THEN "True" ELSE "False"

(***************************************************************************)
(* build_gap_entries                                                       *)
(***************************************************************************)
\* a dict is the sequence of its items in insertion order
Keys(dict) == {dict[i].k : i \in 1..Len(dict)}

Get(dict, key) == (CHOOSE i \in 1..Len(dict) : dict[i].k = key)

Value(dict, key) == dict[Get(dict, key)].v

\* {k: v for k, v in subtopic_scores.items() if v <= 70}
LowSubtopics_Inclusive(subtopic_scores) ==
    LET low(item) == item.v <= GAP_THRESHOLD
    IN  SelectSeq(subtopic_scores, low)

\* {k: v for k, v in subtopic_scores.items() if v < 70}
LowSubtopics(subtopic_scores) ==
    LET low(item) == item.v < GAP_THRESHOLD
    IN  SelectSeq(subtopic_scores, low)

\* sorted(items, key=lambda x: x[1]): ascending, equal scores keep their order
RECURSIVE InsertByScore(_, _)
InsertByScore(item, sorted) ==
    IF sorted = <<>> THEN <<item>>
    ELSE IF Head(sorted).v <= item.v
         THEN <<Head(sorted)>> \o InsertByScore(item, Tail(sorted))
         ELSE <<item>> \o sorted

RECURSIVE SortedByScore(_)
SortedByScore(items) ==
    IF items = <<>> THEN <<>>
    ELSE InsertByScore(items[Len(items)],
                       SortedByScore(SubSeq(items, 1, Len(items) - 1)))

\* the inner loop of lines 269-272: the first subtopic named in the gap text
FirstNamed(g, subtopic_scores) ==
    LET named(i) == Contains(Lower(g.s), LowerTok(subtopic_scores[i].k))
    IN  IF \E i \in 1..Len(subtopic_scores) : named(i)
        THEN CHOOSE i \in 1..Len(subtopic_scores) :
                named(i) /\ \A j \in 1..(i - 1) : ~named(j)
        ELSE 0

\* gap_reasons: the last gap text that names the subtopic first
RECURSIVE GapReasons(_, _, _)
GapReasons(gaps, subtopic_scores, acc) ==
    IF gaps = <<>> THEN acc
    ELSE LET g == Head(gaps)
             i == IF g.kind = "str" THEN FirstNamed(g, subtopic_scores) ELSE 0
         IN  GapReasons(Tail(gaps), subtopic_scores,
                        IF i = 0 THEN acc
                        ELSE [acc EXCEPT ![i] = [set |-> TRUE, text |-> g.s]])

\* skill.lower().replace(" / ", "_").replace(" ", "_")
Category(skill) ==
    CASE skill = "SQL"            -> "sql"
      [] skill = "Power BI / DAX" -> "power_bi_dax"

\* build_gap_entries that ranks the low subtopics in the order of the map
build_gap_entries_Unsorted(skill, subtopic_scores, gaps, overall_score) ==
    LET low     == LowSubtopics(subtopic_scores)
        reasons == GapReasons(gaps, subtopic_scores,
                              [i \in 1..Len(subtopic_scores) |->
                                  [set |-> FALSE, text |-> <<>>]])
    IN  [p \in 1..Len(low) |->
            [ skill             |-> <<skill, low[p].k>>,
              priority          |-> p,
              category          |-> Category(skill),
              reason            |-> IF reasons[Get(subtopic_scores, low[p].k)].set
                                    THEN reasons[Get(subtopic_scores, low[p].k)].text
                                    ELSE <<"Scored", NumTok(low[p].v), "/", "100",
                                           "in", low[p].k>>,
              job_market_demand |-> IF overall_score < HIGH_DEMAND
                                    THEN "high" ELSE "medium",
              source            |-> "assessment",
              assessed_score    |-> low[p].v ]]

build_gap_entries(skill, subtopic_scores, gaps, overall_score) ==
    LET low     == SortedByScore(LowSubtopics(subtopic_scores))
        reasons == GapReasons(gaps, subtopic_scores,
                              [i \in 1..Len(subtopic_scores) |->
                                  [set |-> FALSE, text |-> <<>>]])
    IN  [p \in 1..Len(low) |->
            [ skill             |-> <<skill, low[p].k>>,
              priority          |-> p,
              category          |-> Category(skill),
              reason            |-> IF reasons[Get(subtopic_scores, low[p].k)].set
                                    THEN reasons[Get(subtopic_scores, low[p].k)].text
                                    ELSE <<"Scored", NumTok(low[p].v), "/", "100",
                                           "in", low[p].k>>,
              job_market_demand |-> IF overall_score < HIGH_DEMAND
                                    THEN "high" ELSE "medium",
              source            |-> "assessment",
              assessed_score    |-> low[p].v ]]

(***************************************************************************)
(* build_context_prompt                                                    *)
(***************************************************************************)
\* truthiness of an optional string
TruthyStr(x) == x # None /\ x # ""

Line(label, items) == [label |-> label, items |-> items]

\* lines.append(...) under an if
LineIf(cond, label, items) == IF cond THEN <<Line(label, items)>> ELSE <<>>

NameItems(skills) == [i \in 1..Len(skills) |-> <<skills[i].name>>]

\* the lines of the prompt between the two rulers; the items of a line are
\* the stored entries it renders
build_context_prompt(d) ==
    LET p               == d.profile
        current_skills  == d.skills.current
        completed       == d.skills.completed
        learning        == d.skills.learning
        recent_notes    == LastN(d.mentor_notes, NOTES_SHOWN)
        recent_sessions == LastN(d.session_summaries, SESSIONS_SHOWN)
        goals           == d.preferences.career_goals
    IN  LineIf(TruthyStr(p.name), "Name", <<<<p.name>>>>)
        \o LineIf(TruthyStr(p.current_role), "Current role", <<<<p.current_role>>>>)
        \o LineIf(TruthyStr(p.target_role), "Target role", <<<<p.target_role>>>>)
        \o LineIf(p.years_experience # 0, "Experience",
                  <<<<NumTok(p.years_experience)>>>>)
        \o LineIf(TruthyStr(p.location), "Location", <<<<p.location>>>>)
        \o LineIf(current_skills # <<>>, "Current skills",
                  NameItems(FirstN(current_skills, SKILLS_SHOWN)))
        \o LineIf(completed # <<>>, "Recently validated skills",
                  NameItems(LastN(completed, COMPLETED_SHOWN)))
        \o LineIf(learning # <<>>, "Currently learning", NameItems(learning))
        \o LineIf(recent_notes # <<>>, "Mentor notes",
                  [i \in 1..Len(recent_notes) |->
                      <<NumTok(recent_notes[i].date), recent_notes[i].note>>])
        \o LineIf(recent_sessions # <<>>, "Recent sessions",
                  [i \in 1..Len(recent_sessions) |->
                      <<NumTok(recent_sessions[i].date), recent_sessions[i].type>>
                      \o FirstN(recent_sessions[i].summary, SUMMARY_SHOWN)])
        \o LineIf(goals # <<>>, "Career goals",
                  [i \in 1..Len(FirstN(goals, GOALS_SHOWN)) |-> <<goals[i]>>])

(***************************************************************************)
(* Store operations                                                        *)
(***************************************************************************)
\* a call that wrote nothing
NoWrite ==
    /\ flushed' = <<>>
    /\ UNCHANGED <<data, file, log>>

\* UserMemory(user_id): a fresh instance over the same directory
Reload ==
    /\ data' = _load(file)
    /\ flushed' = <<>>
    /\ UNCHANGED <<file, log, now, inp, out, quiz, mem2, vec>>

\* start_learning_session, lines 77-82: track the skill unless it is already
\* in the learning bucket
start_learning_session(skill_name, user_level) ==
    /\ IF skill_name \notin Names(data.skills.learning)
       THEN Commit([data EXCEPT !.skills.learning =
                        Append(@, [name |-> skill_name, level |-> user_level])],
                   <<>>)
       ELSE NoWrite
    /\ UNCHANGED <<now, inp, out, quiz, mem2, vec>>

mark_skill_completed(skill_name, score) ==
    /\ Commit(SkillCompleted(data, skill_name, score),
              <<log_event("skill_completed", <<skill_name, NumTok(score)>>)>>)
    /\ UNCHANGED <<now, inp, out, quiz, mem2, vec>>

\* mark_skill_completed followed by add_session_summary: two saves
CompleteAndSummarise(skill_name, score, session_type, summary, key_insights) ==
    LET d1 == Stamp(SkillCompleted(data, skill_name, score))
        d2 == Stamp(SummaryAdded(d1, session_type, summary, key_insights))
    IN  /\ data'    = d2
        /\ file'    = [exists |-> TRUE, content |-> d2]
        /\ flushed' = <<d1, d2>>
        /\ log'     = Append(log, log_event("skill_completed",
                                           <<skill_name, NumTok(score)>>))

continue_learning(skill_name, response_text) ==
    LET quiz_score       == ExtractScalar(response_text, "[QUIZ_SCORE:")
        session_complete == Contains(response_text, "[SESSION_COMPLETE]")
    IN  /\ IF Truthy(quiz_score) /\ quiz_score.val >= PASS_SCORE /\ session_complete
           THEN CompleteAndSummarise(skill_name, quiz_score.val, "learning",
                    <<"Completed", skill_name, NumTok(quiz_score.val)>>,
                    <<skill_name, NumTok(quiz_score.val)>>)
           ELSE NoWrite
        /\ UNCHANGED <<now, inp, out, quiz, mem2, vec>>

run_final_validation(skill_name, response_text) ==
    LET final_score  == ExtractScalar(response_text, "[FINAL_SCORE:")
        ready_for_cv == Contains(Lower(response_text), "[READY_FOR_CV: yes]")
    IN  /\ IF Truthy(final_score)
           THEN CompleteAndSummarise(skill_name, final_score.val, "validation",
                    <<"Validated", skill_name, NumTok(final_score.val),
                      BoolText(ready_for_cv)>>,
                    <<>>)
           ELSE NoWrite
        /\ UNCHANGED <<now, inp, out, quiz, mem2, vec>>

SkillLists == { <<>>, <<[name |-> "sql", level |-> "advanced"]>> }

update_skills(current, targets) ==
    /\ Commit(SkillsUpdated(data, current, targets),
              <<log_event("skills_update",
                         <<NumTok(IF current = <<>> THEN 0 ELSE 7),
                           NumTok(IF targets = <<>> THEN 0 ELSE 7)>>)>>)
    /\ UNCHANGED <<now, inp, out, quiz, mem2, vec>>

NoteTexts == {"n"}

add_mentor_note(note) ==
    /\ Commit(NoteAdded(data, note), <<log_event("mentor_note", <<note>>)>>)
    /\ UNCHANGED <<now, inp, out, quiz, mem2, vec>>

SessionTypes == {"mentor_chat", "assessment"}

add_session_summary(session_type, summary, key_insights) ==
    /\ Commit(SummaryAdded(data, session_type, summary, key_insights), <<>>)
    /\ UNCHANGED <<now, inp, out, quiz, mem2, vec>>

(***************************************************************************)
(* Specifications of the store                                             *)
(***************************************************************************)
Idle == <<>>

InitStore ==
    /\ now = 0
    /\ file = NoFile
    /\ data = _load(NoFile)
    /\ log = <<>>
    /\ flushed = <<>>
    /\ inp = Idle
    /\ out = Idle
    /\ quiz = Idle
    /\ mem2 = Idle
    /\ vec = Idle

MayComplete == Len(data.skills.completed) < MaxCompleted

\* the skill ledger: learning agent, CV upload, restart
NextSkills ==
    \/ \E n \in SkillNames, l \in Levels : start_learning_session(n, l)
    \/ \E n \in SkillNames, sc \in {40, 85} : MayComplete /\ mark_skill_completed(n, sc)
    \/ \E n \in SkillNames, r \in LearnResponses : MayComplete /\ continue_learning(n, r)
    \/ \E n \in SkillNames, r \in ValidationResponses :
            MayComplete /\ run_final_validation(n, r)
    \/ \E c \in SkillLists, t \in SkillLists :
            Len(log) < MaxSkillLog /\ update_skills(c, t)
    \/ Reload

SpecSkills == InitStore /\ [][NextSkills]_vars

\* notes and session summaries
NextRetention ==
    \/ \E n \in NoteTexts : Len(log) < MaxNoteLog /\ add_mentor_note(n)
    \/ \E t \in SessionTypes : add_session_summary(t, <<"s">>, <<>>)
    \/ Reload

SpecRetention == InitStore /\ [][NextRetention]_vars

(***************************************************************************)
(* Properties of the store                                                 *)
(***************************************************************************)
\* C1: no skill name is in the learning bucket and in the completed bucket
\* at the same time.
C1_LearningXorCompleted ==
    Names(data.skills.learning) \cap Names(data.skills.completed) = {}

WithinRetention(d) ==
    /\ Len(d.mentor_notes) <= NOTES_KEPT
    /\ Len(d.session_summaries) <= SUMMARIES_KEPT

\* C2: mentor_notes never holds more than 20 entries and session_summaries
\* never more than 10, in memory, in memory.json and in every record a call
\* wrote to memory.json.
C2_RetentionBound ==
    /\ WithinRetention(data)
    /\ file.exists => WithinRetention(file.content)
    /\ \A i \in 1..Len(flushed) : WithinRetention(flushed[i])

\* the 21st note has been added and the list on disk is full
C2_Witness ==
    /\ Len(log) > NOTES_KEPT
    /\ file.exists
    /\ Len(file.content.mentor_notes) = NOTES_KEPT
    /\ Len(file.content.session_summaries) = SUMMARIES_KEPT

ShowsOnlyCompleted(d, e) ==
    /\ e.name \notin Names(d.skills.learning)
    /\ \E j \in 1..Len(d.skills.completed) :
          /\ d.skills.completed[j].name = e.name
          /\ d.skills.completed[j].score = e.score

\* C3: when a call has completed a skill, every record that call wrote to
\* memory.json, and the record a fresh instance loads afterwards, shows the
\* skill in completed with its score and not in learning.
C3_CompletedSurvivesRestart ==
    [][ Len(data'.skills.completed) = Len(data.skills.completed) + 1
        => LET e == data'.skills.completed[Len(data'.skills.completed)]
           IN  /\ flushed' # <<>>
               /\ \A i \in 1..Len(flushed') : ShowsOnlyCompleted(flushed'[i], e)
               /\ ShowsOnlyCompleted(_load(file'), e) ]_vars

\* a skill that was being learnt has been completed by the last call, another
\* one is still being learnt
C3_Witness ==
    /\ Len(flushed) = 1
    /\ log # <<>>
    /\ log[Len(log)].type = "skill_completed"
    /\ file.exists
    /\ Names(file.content.skills.completed) = {"sql"}
    /\ Names(file.content.skills.learning) = {"dax"}

(***************************************************************************)
(* UserMemory: update_profile, save_mentor_analysis, the clock             *)
(***************************************************************************)
\* truthiness of a profile value: years_experience is a number, every other
\* field an optional string
ProfileTruthy(k, v) == IF k = "years_experience" THEN v # 0 ELSE TruthyStr(v)

\* dict.update with every truthy item of profile_data, falsy items included
ProfileUpdated_Overwrites(d, profile_data) ==
    [d EXCEPT !.profile =
        [k \in DOMAIN @ \cup DOMAIN profile_data |->
            IF k \in DOMAIN profile_data THEN profile_data[k] ELSE @[k]]]

\* self._data["profile"].update({k: v for k, v in profile_data.items() if v})
ProfileUpdated(d, profile_data) ==
    LET kept == {k \in DOMAIN profile_data : ProfileTruthy(k, profile_data[k])}
    IN  [d EXCEPT !.profile =
            [k \in DOMAIN @ \cup kept |->
                IF k \in kept THEN profile_data[k] ELSE @[k]]]

update_profile(profile_data) ==
    /\ Commit(ProfileUpdated(data, profile_data),
              <<log_event("profile_update", <<profile_data>>)>>)
    /\ UNCHANGED <<now, inp, out, quiz, mem2, vec>>

save_mentor_analysis(skill_gaps, learning_roadmap, recommended_roles) ==
    /\ Commit([data EXCEPT !.last_mentor_analysis =
                  [ skill_gaps        |-> skill_gaps,
                    learning_roadmap  |-> learning_roadmap,
                    recommended_roles |-> recommended_roles ]],
              <<>>)
    /\ UNCHANGED <<now, inp, out, quiz, mem2, vec>>

\* datetime.utcnow() moves on between two calls
Tick ==
    /\ now' = now + 1
    /\ UNCHANGED <<data, file, log, flushed, inp, out, quiz, mem2, vec>>

\* the dictionaries given to update_profile: every field may be absent,
\* None, empty or set
FullProfiles ==
    { [name |-> n, target_role |-> r, years_experience |-> y] :
      n \in {None, "", "Ann", "Bob"}, r \in {"ML"}, y \in {0, 7} }

ProfileInputs ==
    { [k \in ks |-> full[k]] :
      full \in FullProfiles,
      ks \in {{}, {"name"}, {"years_experience"}, {"name", "years_experience"},
              {"name", "target_role"}} }

(***************************************************************************)
(* The whole store interface: every mutating method, the prompt, restart   *)
(***************************************************************************)
NoPrompt == [calls |-> 0, val |-> <<>>, seen |-> _load(NoFile), same |-> FALSE]

\* build_context_prompt that also records the call in the audit log
PromptCall_Logged ==
    /\ out' = [calls |-> out.calls + 1, val |-> build_context_prompt(data),
               seen |-> data, same |-> (out.calls > 0 /\ out.seen = data)]
    /\ log' = Append(log, log_event("context_built", <<>>))
    /\ UNCHANGED <<data, file, flushed, now, inp, quiz, mem2, vec>>

\* mem.build_context_prompt() on the live instance; out keeps the text, the
\* record it was built from and whether that record is the one the previous
\* call saw
PromptCall ==
    /\ out' = [calls |-> out.calls + 1, val |-> build_context_prompt(data),
               seen |-> data, same |-> (out.calls > 0 /\ out.seen = data)]
    /\ UNCHANGED <<data, file, log, flushed, now, inp, quiz, mem2, vec>>

InitInterface ==
    /\ now = 0
    /\ file = NoFile
    /\ data = _load(NoFile)
    /\ log = <<>>
    /\ flushed = <<>>
    /\ inp = Idle
    /\ out = NoPrompt
    /\ quiz = Idle
    /\ mem2 = Idle
    /\ vec = Idle

MayLog == Len(log) < MaxInterfaceLog

MaySummarise == Len(data.session_summaries) < MaxInterfaceSummaries

\* the six mutating methods of UserMemory and a restart
NextInterface ==
    \/ \E p \in {q \in ProfileInputs : DOMAIN q = {"name"}} :
            MayLog /\ update_profile(p)
    \/ \E c \in SkillLists, t \in SkillLists : MayLog /\ update_skills(c, t)
    \/ \E n \in SkillNames : MayLog /\ mark_skill_completed(n, 85)
    \/ \E n \in NoteTexts : MayLog /\ add_mentor_note(n)
    \/ \E t \in SessionTypes :
            MaySummarise /\ add_session_summary(t, <<"s">>, <<>>)
    \/ \E g \in {<<>>, <<"sql">>} : save_mentor_analysis(g, g, <<>>)
    \/ Reload

SpecInterface == InitInterface /\ [][NextInterface]_vars

\* the prompt builder among mutations, clock ticks and restarts
NextContext ==
    \/ \E n \in NoteTexts : MayLog /\ add_mentor_note(n)
    \/ MayLog /\ update_profile([name |-> "Ann"])
    \/ now < MaxTime /\ Tick
    \/ out.calls < MaxPromptCalls /\ PromptCall
    \/ Reload

SpecContext == InitInterface /\ [][NextContext]_vars

\* C13: every call of a mutating method (a step that writes memory.json)
\* appends exactly one record to the audit log and leaves the records
\* already there as they were.
C13_OneRecordPerMutation ==
    [][ flushed' # <<>>
        => /\ Len(log') = Len(log) + 1
           /\ SubSeq(log', 1, Len(log)) = log ]_vars

StrVal(s)   == [list |-> FALSE, s |-> s,  xs |-> <<>>]
ListVal(xs) == [list |-> TRUE,  s |-> "", xs |-> xs]

\* a list item that is itself a JSON array or object, which set() cannot hash
Nested == "[...]"

LIST_KEYS == <<"career_goals", "concerns", "preferred_topics">>

\* the store while a call runs: the record, memory.json, the audit log, the
\* records written so far and whether an exception has been raised
Running(d, f, l) == [d |-> d, file |-> f, log |-> l, flushed |-> <<>>, err |-> FALSE]

Failed(st) == [st EXCEPT !.err = TRUE]

Changed(st, d2) == IF st.err THEN st ELSE [st EXCEPT !.d = d2]

\* log_event inside a running call; open() raises when the directory cannot
\* be written
Logged(st, disk, ev) ==
    IF st.err THEN st
    ELSE IF ~disk THEN Failed(st)
    ELSE [st EXCEPT !.log = Append(@, ev)]

\* save inside a running call: updated_at is stamped before the file is opened
Saved(st, disk) ==
    IF st.err THEN st
    ELSE IF ~disk THEN Failed([st EXCEPT !.d = Stamp(@)])
    ELSE [st EXCEPT !.d = Stamp(@),
                    !.file = [exists |-> TRUE, content |-> Stamp(st.d)],
                    !.flushed = Append(@, Stamp(st.d))]

\* list(set(xs)): each value once, in the hash order h of the process
ListOfSet(xs, h) == LET in_xs(v) == v \in Range(xs) IN SelectSeq(h, in_xs)

\* existing + new without the set(): duplicates stay
MergeKey_Concat(st, ps, key, h) ==
    IF st.err \/ key \notin Keys(ps) THEN st
    ELSE IF ~Value(ps, key).list THEN st
    ELSE LET existing == st.d.preferences[key]
             both     == existing \o Value(ps, key).xs
         IN  IF Nested \in Range(both) THEN Failed(st)
             ELSE Changed(st, [st.d EXCEPT !.preferences[key] = both])

\* lines 93-96 for one key: merge a list value into preferences[key]
MergeKey(st, ps, key, h) ==
    IF st.err \/ key \notin Keys(ps) THEN st
    ELSE IF ~Value(ps, key).list THEN st
    ELSE LET existing == st.d.preferences[key]
             both     == existing \o Value(ps, key).xs
         IN  IF Nested \in Range(both) THEN Failed(st)
             ELSE Changed(st, [st.d EXCEPT !.preferences[key] = ListOfSet(both, h)])

\* profile_updates after the del of every merged key
Remaining(ps) ==
    LET stays(p) == ~(p.k \in Range(LIST_KEYS) /\ p.v.list)
    IN  SelectSeq(ps, stays)

\* the dictionary handed to update_profile
AsProfileData(ps) == [k \in Keys(ps) |-> Value(ps, k).s]

\* user_memory.update_profile(profile_updates) inside the running call
ProfileUpdateRun(st, disk, pu) ==
    IF st.err THEN st
    ELSE IF ~pu.isdict THEN Failed(st)
    ELSE LET pd == AsProfileData(Remaining(pu.ps))
         IN  Saved(Logged(Changed(st, ProfileUpdated(st.d, pd)), disk,
                          log_event("profile_update", <<pd>>)), disk)

\* lines 91-97
ProfileRun(st, disk, pu, h) ==
    IF ~pu.isdict \/ pu.ps # <<>>
    THEN ProfileUpdateRun(
             MergeKey(MergeKey(MergeKey(st, pu.ps, LIST_KEYS[1], h),
                               pu.ps, LIST_KEYS[2], h),
                      pu.ps, LIST_KEYS[3], h),
             disk, pu)
    ELSE st

\* lines 99-100
NoteRun(st, disk, mentor_note) ==
    IF mentor_note # ""
    THEN Saved(Logged(Changed(st, NoteAdded(st.d, mentor_note)), disk,
                      log_event("mentor_note", <<mentor_note>>)), disk)
    ELSE st

\* lines 102-104; f.get on an entry that is not an object raises
SummaryRun(st, disk, session_type, session_summary, facts) ==
    IF session_summary = "" \/ st.err THEN st
    ELSE IF ~facts.dicts THEN Failed(st)
    ELSE LET high(f) == f.confidence = "high"
             picked  == SelectSeq(facts.fs, high)
             key_insights == [i \in 1..Len(picked) |-> picked[i].fact]
         IN  Saved(Changed(st, SummaryAdded(st.d, session_type,
                                            <<session_summary>>, key_insights)),
                   disk)

\* lines 106-107
RECURSIVE FactsLogged(_, _, _)
FactsLogged(st, disk, fs) ==
    IF fs = <<>> THEN st
    ELSE FactsLogged(Logged(st, disk,
                            log_event("extracted_fact",
                                      <<Head(fs).category, Head(fs).fact>>)),
                     disk, Tail(fs))

FactsRun(st, disk, facts) ==
    IF st.err THEN st
    ELSE IF ~facts.dicts THEN Failed(st)
    ELSE FactsLogged(st, disk, facts.fs)

EmptyReturn == [facts |-> <<>>, summary |-> "", notes |-> <<>>, error |-> FALSE]

ErrorReturn == [facts |-> <<>>, summary |-> "", notes |-> <<>>, error |-> TRUE]

\* extract_and_consolidate: what it returns or that it raised, and the store
\* it leaves behind.  reply is the outcome of chat_single and of json.loads
\* on the braces of its text.
extract_and_consolidate(conversation_history, session_type, st0, reply, h, disk) ==
    IF conversation_history = "short"
    THEN [raised |-> FALSE, ret |-> EmptyReturn, st |-> st0]
    ELSE IF conversation_history = "malformed"
    THEN [raised |-> TRUE, ret |-> EmptyReturn, st |-> st0]
    ELSE IF reply.kind \in {"gateway_error", "not_json"}
    THEN [raised |-> FALSE, ret |-> ErrorReturn, st |-> st0]
    ELSE IF reply.kind = "no_braces"
    THEN [raised |-> FALSE, ret |-> EmptyReturn, st |-> st0]
    ELSE LET r   == reply.result
             st1 == ProfileRun(st0, disk, r.profile_updates, h)
             st2 == NoteRun(st1, disk, r.mentor_note)
             st3 == SummaryRun(st2, disk, session_type, r.session_summary,
                               r.new_facts)
             st4 == FactsRun(st3, disk, r.new_facts)
             st5 == Saved(st4, disk)
         IN  [ raised |-> FALSE,
               ret    |-> IF st5.err THEN ErrorReturn
                          ELSE [ facts   |-> r.new_facts.fs,
                                 summary |-> r.session_summary,
                                 notes   |-> IF r.mentor_note # ""
                                             THEN <<r.mentor_note>> ELSE <<>>,
                                 error   |-> FALSE ],
               st     |-> st5 ]

NotConsolidated ==
    [runs |-> 0, raised |-> FALSE, ret |-> EmptyReturn, transcript |-> "short",
     disk |-> TRUE,
     reply |-> [kind |-> "no_braces",
                result |-> [profile_updates |-> [isdict |-> TRUE, ps |-> <<>>],
                            session_summary |-> "", mentor_note |-> "",
                            new_facts |-> [dicts |-> TRUE, fs |-> <<>>]]]]

\* consolidate_after_session: in a thread the caller sees no exception, in
\* the synchronous mode whatever extract_and_consolidate raises reaches it;
\* out keeps the call: its transcript, the model's reply and what came back
consolidate_after_session(conversation_history, session_type, run_async, reply, h, disk) ==
    LET r == extract_and_consolidate(conversation_history, session_type,
                                     Running(data, file, log), reply, h, disk)
    IN  /\ data' = r.st.d
        /\ file' = r.st.file
        /\ log' = r.st.log
        /\ flushed' = r.st.flushed
        /\ out' = [runs |-> out.runs + 1, raised |-> (r.raised /\ ~run_async),
                   ret |-> r.ret, transcript |-> conversation_history,
                   disk |-> disk, reply |-> reply]
        /\ UNCHANGED <<now, inp, quiz, mem2, vec>>

\* what the extraction model may send back
Dict(ps) == [isdict |-> TRUE, ps |-> ps]
NotDict  == [isdict |-> FALSE, ps |-> <<>>]

ProfileUpdates ==
    { Dict(<<>>), NotDict,
      Dict(<<Pair("career_goals", ListVal(<<"ml">>))>>),
      Dict(<<Pair("career_goals", ListVal(<<"ds", "ml", "ds">>)),
             Pair("name", StrVal("")), Pair("target_role", StrVal("ML"))>>),
      Dict(<<Pair("career_goals", ListVal(<<"ml">>)),
             Pair("concerns", ListVal(<<Nested>>))>>),
      Dict(<<Pair("concerns", ListVal(<<"ds">>)),
             Pair("preferred_topics", ListVal(<<"ml", "ds">>))>>),
      Dict(<<Pair("name", StrVal("Ann"))>>),
      Dict(<<Pair("name", StrVal("")), Pair("career_goals", StrVal("ml"))>>) }

Facts(fs) == [dicts |-> TRUE, fs |-> fs]

IllTypedFacts == [dicts |-> FALSE, fs |-> <<>>]

SomeFacts ==
    Facts(<<[fact |-> "f", category |-> "career_goal", confidence |-> "high"],
            [fact |-> "g", category |-> "general", confidence |-> "low"]>>)

Result(pu, ss, mn, nf) ==
    [profile_updates |-> pu, session_summary |-> ss, mentor_note |-> mn,
     new_facts |-> nf]

Replies ==
    { [kind |-> k, result |-> Result(Dict(<<>>), "", "", Facts(<<>>))] :
      k \in {"gateway_error", "not_json", "no_braces"} }
    \cup
    { [kind |-> "result", result |-> Result(pu, "", "", Facts(<<>>))] :
      pu \in ProfileUpdates }
    \cup
    { [kind |-> "result", result |-> Result(Dict(<<>>), rest[1], rest[2], rest[3])] :
      rest \in { <<"s", "n", SomeFacts>>, <<"s", "", IllTypedFacts>>,
                 <<"", "n", IllTypedFacts>> } }
    \cup
    { [kind |-> "result",
       result |-> Result(Dict(<<Pair("name", StrVal("Ann"))>>), "s", "n", SomeFacts)] }

PrefValues == {"ml", "ds"}

\* str hashes are salted per process: any order of the values can come out
HashOrders == {h \in [1..Cardinality(PrefValues) -> PrefValues] : Range(h) = PrefValues}

\* a transcript of one message, and one whose entries are not objects
BadTranscripts == {"short", "malformed"}

NoReply == [kind |-> "no_braces", result |-> Result(Dict(<<>>), "", "", Facts(<<>>))]

\* a new user, and a user whose earlier session left a career goal
StartStores ==
    { Running(_load(NoFile), NoFile, <<>>),
      extract_and_consolidate(
          "ok", "mentor_chat", Running(_load(NoFile), NoFile, <<>>),
          [kind |-> "result",
           result |-> Result(Dict(<<Pair("career_goals", ListVal(<<"ml">>)),
                                    Pair("name", StrVal("Ann"))>>),
                             "", "", Facts(<<>>))],
          <<"ml", "ds">>, TRUE).st }

InitConsolidate ==
    /\ now = 0
    /\ \E st \in StartStores :
          /\ file = st.file
          /\ data = st.d
          /\ log = st.log
    /\ flushed = <<>>
    /\ inp = Idle
    /\ out = NotConsolidated
    /\ quiz = Idle
    /\ mem2 = Idle
    /\ vec = Idle

MayConsolidate == out.runs < MaxConsolidations

NextConsolidate ==
    \/ \E r \in Replies, h \in HashOrders :
            /\ MayConsolidate
            /\ consolidate_after_session("ok", "mentor_chat", TRUE, r, h, TRUE)
    \/ \E r \in Replies, h \in HashOrders :
            /\ MayConsolidate
            /\ consolidate_after_session("ok", "mentor_chat", FALSE, r, h, FALSE)
    \/ \E c \in BadTranscripts, a \in BOOLEAN :
            /\ MayConsolidate
            /\ consolidate_after_session(c, "mentor_chat", a, NoReply,
                                         <<"ml", "ds">>, TRUE)
    \/ \E p \in {q \in ProfileInputs : DOMAIN q = {"name"}} :
            out.runs = 0 /\ Len(log) < MaxConsolidateLog /\ update_profile(p)
    \/ out.runs = 0 /\ start_learning_session("sql", "beginner")
    \/ data # _load(file) /\ Reload

SpecConsolidate == InitConsolidate /\ [][NextConsolidate]_vars

(***************************************************************************)
(* Properties of update_profile and of the consolidator                    *)
(***************************************************************************)
\* the dictionary update_profile was given, as it wrote it to the audit log
Incoming(rec) == rec.content[1]

\* C12: in every call of update_profile, made directly or by the
\* consolidator, a profile field that is absent from the incoming dictionary
\* or whose incoming value is None or empty keeps the value it had.
C12_EmptyNeverOverwrites ==
    [][ \A i \in 1..Len(log') :
          (i > Len(log) /\ log'[i].type = "profile_update")
          => \A k \in DOMAIN data.profile :
                (k \notin DOMAIN Incoming(log'[i])
                   \/ ~ProfileTruthy(k, Incoming(log'[i])[k]))
                => /\ k \in DOMAIN data'.profile
                   /\ data'.profile[k] = data.profile[k] ]_vars

\* the consolidator has called update_profile with an empty name and a new
\* target role on a profile that had a name: the name is still there
C12_Witness ==
    /\ out.runs = 1
    /\ ~out.ret.error
    /\ log # <<>>
    /\ log[Len(log)].type = "profile_update"
    /\ "name" \in DOMAIN Incoming(log[Len(log)])
    /\ Incoming(log[Len(log)]).name = ""
    /\ data.profile.name = "Ann"
    /\ data.profile.target_role = "ML"
    /\ file.content.profile.name = "Ann"

\* C14: after every call that returned without raising, a fresh instance
\* loads a record equal to the caller's in-memory record.
C14_EveryMutationFlushed == ~out.raised => data = _load(file)

\* every list-valued key up to the i-th could be hashed, so the loop reached
\* and passed the i-th key
Merged(ps, i) ==
    \A j \in 1..i :
        (LIST_KEYS[j] \in Keys(ps) /\ Value(ps, LIST_KEYS[j]).list)
        => Nested \notin Range(Value(ps, LIST_KEYS[j]).xs)

\* C16: when a consolidation merges a list-valued preference field, the list
\* stored afterwards holds every value stored before and every incoming
\* value, each once; when the call returned without an error memory.json
\* holds that list too.
C16_MergeIsSetUnion ==
    [][ (out'.runs = out.runs + 1 /\ out'.transcript = "ok"
           /\ out'.reply.kind = "result")
        => LET ps == out'.reply.result.profile_updates.ps
           IN  \A i \in 1..Len(LIST_KEYS) :
                 LET key == LIST_KEYS[i]
                 IN  (key \in Keys(ps) /\ Value(ps, key).list /\ Merged(ps, i))
                     => LET after == data'.preferences[key]
                        IN  /\ Range(after) = Range(data.preferences[key])
                                              \cup Range(Value(ps, key).xs)
                            /\ Cardinality(Range(after)) = Len(after)
                            /\ (~out'.ret.error
                                => file'.content.preferences[key] = after) ]_vars

\* a store that held the goal "ml" has merged the incoming goals ds, ml, ds
C16_Witness ==
    /\ out.runs = 1
    /\ ~out.ret.error
    /\ out.reply.kind = "result"
    /\ "career_goals" \in Keys(out.reply.result.profile_updates.ps)
    /\ Value(out.reply.result.profile_updates.ps, "career_goals") =
           ListVal(<<"ds", "ml", "ds">>)
    /\ Len(log) = 2
    /\ Range(data.preferences.career_goals) = {"ml", "ds"}
    /\ Len(data.preferences.career_goals) = 2
    /\ file.content.preferences.career_goals = data.preferences.career_goals

\* C17: no consolidation call raises to its caller.
C17_ConsolidationNeverRaises == ~out.raised

(***************************************************************************)
(* A background consolidation and a foreground request on the same user    *)
(***************************************************************************)
\* data is the record of the instance the consolidation thread was given,
\* mem2 the record of the instance a foreground request made for the same
\* user id; both read and write the same memory.json.  out is the thread:
\* the reply it is applying and the statement it has reached.

\* a save() of the foreground instance
Commit2(d, evs) ==
    /\ mem2'    = Stamp(d)
    /\ file'    = [exists |-> TRUE, content |-> Stamp(d)]
    /\ flushed' = <<Stamp(d)>>
    /\ log'     = log \o evs

NoteSet(d) == {d.mentor_notes[i].note : i \in 1..Len(d.mentor_notes)}

SummarySet(d) == {d.session_summaries[i].summary : i \in 1..Len(d.session_summaries)}

\* get_user_memory(user_id) in a request: __init__ loads memory.json
FgOpen ==
    /\ mem2 = Idle
    /\ mem2' = _load(file)
    /\ UNCHANGED <<data, file, log, flushed, now, inp, out, quiz, vec>>

\* add_mentor_note under a per-user lock that reloads the record first
FgNote_Reloads(note) ==
    /\ mem2 # Idle
    /\ note \notin NoteSet(mem2)
    /\ Commit2(NoteAdded(_load(file), note), <<log_event("mentor_note", <<note>>)>>)
    /\ UNCHANGED <<data, now, inp, out, quiz, vec>>

\* mem.add_mentor_note(note) on the foreground instance
FgNote(note) ==
    /\ mem2 # Idle
    /\ note \notin NoteSet(mem2)
    /\ Commit2(NoteAdded(mem2, note), <<log_event("mentor_note", <<note>>)>>)
    /\ UNCHANGED <<data, now, inp, out, quiz, vec>>

\* mem.add_session_summary(...) on the foreground instance
FgSummary(session_type, summary) ==
    /\ mem2 # Idle
    /\ summary \notin SummarySet(mem2)
    /\ Commit2(SummaryAdded(mem2, session_type, summary, <<>>), <<>>)
    /\ UNCHANGED <<data, now, inp, out, quiz, vec>>

\* consolidate_after_session(..., run_async=True): the thread starts, asks
\* the model and parses its reply; profile_updates is empty
BgStart ==
    /\ out.pc = "idle"
    /\ out' = [out EXCEPT !.pc = "note"]
    /\ flushed' = <<>>
    /\ UNCHANGED <<data, file, log, now, inp, quiz, mem2, vec>>

\* lines 99-100
BgNote ==
    /\ out.pc = "note"
    /\ out' = [out EXCEPT !.pc = "summary"]
    /\ IF out.result.mentor_note # ""
       THEN Commit(NoteAdded(data, out.result.mentor_note),
                   <<log_event("mentor_note", <<out.result.mentor_note>>)>>)
       ELSE NoWrite
    /\ UNCHANGED <<now, inp, quiz, mem2, vec>>

\* lines 102-104
BgSummary ==
    /\ out.pc = "summary"
    /\ out' = [out EXCEPT !.pc = "save"]
    /\ IF out.result.session_summary # ""
       THEN Commit(SummaryAdded(data, "mentor_chat",
                                <<out.result.session_summary>>, <<>>), <<>>)
       ELSE NoWrite
    /\ UNCHANGED <<now, inp, quiz, mem2, vec>>

\* lines 109-110: the last save, then the thread returns
BgSave ==
    /\ out.pc = "save"
    /\ out' = [out EXCEPT !.pc = "done"]
    /\ Commit(data, <<>>)
    /\ UNCHANGED <<now, inp, quiz, mem2, vec>>

RaceReplies ==
    { Result(Dict(<<>>), ss, "bg", Facts(<<>>)) : ss \in {"", "s"} }

InitRace ==
    /\ now = 0
    /\ \E st \in StartStores :
          /\ file = st.file
          /\ data = st.d
          /\ log = st.log
    /\ flushed = <<>>
    /\ inp = Idle
    /\ out \in {[pc |-> "idle", result |-> r] : r \in RaceReplies}
    /\ quiz = Idle
    /\ mem2 = Idle
    /\ vec = Idle

NextRace ==
    \/ FgOpen
    \/ FgNote("fg")
    \/ FgSummary("assessment", <<"fg">>)
    \/ BgStart
    \/ BgNote
    \/ BgSummary
    \/ BgSave

SpecRace == InitRace /\ [][NextRace]_vars

\* C15: the store takes no lock and does not re-read memory.json before it
\* writes: when the foreground instance saves, every note that the
\* background wrote after that instance was loaded is gone from memory.json.
C15_StaleSaveDropsPeerUpdate ==
    [][ (mem2 # Idle /\ mem2' # mem2)
        => /\ file'.content = mem2'
           /\ \A n \in NoteSet(_load(file)) \ NoteSet(mem2) :
                 n \notin NoteSet(file'.content) ]_vars

\* both calls have returned, each instance holds its own note, and the
\* background's note is missing from memory.json
C15_Witness ==
    /\ out.pc = "done"
    /\ "bg" \in NoteSet(data)
    /\ mem2 # Idle
    /\ "fg" \in NoteSet(mem2)
    /\ file.exists
    /\ "bg" \notin NoteSet(file.content)
    /\ "fg" \in NoteSet(file.content)

(***************************************************************************)
(* The parser functions applied to every text up to a length               *)
(***************************************************************************)
\* all texts of at most n tokens over an alphabet
Texts(alphabet, n) == UNION {[1..k -> alphabet] : k \in 0..n}

NotRun == [done |-> FALSE, marker |-> None, val |-> <<>>]

InitFunction(inputs) ==
    /\ now = 0
    /\ file = NoFile
    /\ data = _load(NoFile)
    /\ log = <<>>
    /\ flushed = <<>>
    /\ quiz = Idle
    /\ mem2 = Idle
    /\ vec = Idle
    /\ inp \in inputs
    /\ out = NotRun

Return(marker, val) ==
    /\ out.done = FALSE
    /\ out' = [done |-> TRUE, marker |-> marker, val |-> val]
    /\ UNCHANGED <<data, file, log, flushed, now, inp, quiz, mem2, vec>>

ThinkAlphabet == {THINK_OPEN, THINK_CLOSE, Blank, "a", "b"}

CallStripThink == Return(None, _strip_think(inp))

SpecThink == InitFunction(Texts(ThinkAlphabet, MaxThinkLen)) /\ [][CallStripThink]_vars

ScalarMarkers == {"[QUESTION_SCORE:", "[ASSESSMENT_SCORE:"}

ScalarAlphabet == {"[QUESTION_SCORE:", Blank, "7", "100", "/", "]", "x"}

CallExtractScalar == \E m \in ScalarMarkers : Return(m, ExtractScalar(inp, m))

SpecScalar == InitFunction(Texts(ScalarAlphabet, MaxScalarLen)) /\ [][CallExtractScalar]_vars

(***************************************************************************)
(* Properties of the parser                                                *)
(***************************************************************************)
Unclosed(text) == Contains(text, THINK_OPEN) /\ ~Contains(text, THINK_CLOSE)

IsTrimOf(t, s) ==
    /\ t # <<>> => (t[1] # Blank /\ t[Len(t)] # Blank)
    /\ \E a \in 0..Len(s) :
          /\ a + Len(t) <= Len(s)
          /\ \A i \in 1..Len(s) :
                IF i > a /\ i <= a + Len(t) THEN s[i] = t[i - a] ELSE s[i] = Blank

WellFormedAt(text, marker, i, n) ==
    /\ i + 4 <= Len(text)
    /\ text[i] = marker
    /\ \E b \in 0..1 :
          /\ i + b + 4 <= Len(text)
          /\ b = 1 => text[i + 1] = Blank
          /\ text[i + b + 1] \in Numerals
          /\ NumVal(text[i + b + 1]) = n
          /\ text[i + b + 2] = "/"
          /\ text[i + b + 3] = "100"
          /\ text[i + b + 4] = "]"

\* C7: a text that contains a well-formed [MARKER: n/100] yields n, a text
\* without the marker name yields None, and no text makes the extraction
\* raise.
C7_ScalarExtraction ==
    out.done =>
        /\ \A i \in 1..Len(inp), n \in {7, 100} :
              WellFormedAt(inp, out.marker, i, n) => out.val = Some(n)
        /\ ~Contains(inp, out.marker) => out.val = NoneInt
        /\ out.val # RaisedInt

StructuredMarkers == {"[SUBTOPIC_SCORES:", "[GAPS:"}

\* [MARKER: <payload>] inside a reply
MarkerTexts ==
    { [text    |-> pre \o <<m, Blank>> \o Dump(v) \o <<"]">> \o post,
       marker  |-> m,
       payload |-> v] :
      pre \in {<<>>, <<"x", Blank>>}, m \in StructuredMarkers,
      v \in NestedPayloads, post \in {<<>>, <<Blank, "[ASSESSMENT_COMPLETE]">>} }

CallExtractBracketedJson ==
    Return(inp.marker, _extract_bracketed_json(inp.text, inp.marker))

SpecBracketed == InitFunction(MarkerTexts) /\ [][CallExtractBracketedJson]_vars

\* C8: for a marker whose payload is a nested object or array, the
\* extraction returns the parse of the whole payload, from its opening symbol
\* to the symbol that closes it.
C8_NestedPayloadExtracted ==
    out.done => out.val = inp.payload

(***************************************************************************)
(* build_gap_entries applied to every small score map                      *)
(***************************************************************************)
SubtopicNames == {"JOINs", "CTEs", "Indexes", "Window Functions", "Query Optimisation"}

GapScores == {40, 69, 70, 71}

\* dicts of at most n items: distinct keys, in any insertion order
ScoreMaps(n) ==
    UNION { { m \in [1..k -> [k : SubtopicNames, v : GapScores]] :
                \A i, j \in 1..k : i # j => m[i].k # m[j].k } : k \in 0..n }

GapLists == { <<>>, <<JStr(<<"JOINs", ":", "x">>)>>, <<JNum(7), JStr(<<"x">>)>> }

GapInputs ==
    [ skill : {"SQL"}, subtopic_scores : ScoreMaps(MaxMapLen),
      gaps : GapLists, overall_score : {40, 55} ]

CallBuildGapEntries ==
    Return(None, build_gap_entries(inp.skill, inp.subtopic_scores,
                                 inp.gaps, inp.overall_score))

SpecGaps == InitFunction(GapInputs) /\ [][CallBuildGapEntries]_vars

EntriesFor(entries, subtopic) ==
    {p \in 1..Len(entries) : entries[p].skill[2] = subtopic}

\* C4: build_gap_entries returns exactly one entry for each subtopic scored
\* below 70 and none for a subtopic scored 70 or more, whatever the gaps list
\* and the overall score are.
C4_EntriesBelowThreshold ==
    out.done =>
        \A sub \in SubtopicNames :
            Cardinality(EntriesFor(out.val, sub)) =
                IF sub \in Keys(inp.subtopic_scores)
                   /\ Value(inp.subtopic_scores, sub) < 70
                THEN 1 ELSE 0

\* a map with a subtopic at 70 and another below it gave one entry
C4_Witness ==
    /\ out.done
    /\ \E i \in 1..Len(inp.subtopic_scores) : inp.subtopic_scores[i].v = 70
    /\ \E i \in 1..Len(inp.subtopic_scores) : inp.subtopic_scores[i].v = 69
    /\ Len(out.val) = 1
    /\ inp.gaps # <<>>

(***************************************************************************)
(* Assessment agent: start_assessment, continue_assessment                 *)
(***************************************************************************)
COMPLETE == "[ASSESSMENT_COMPLETE]"

Turn(role, content) == [role |-> role, content |-> content]

\* a parsed score object as the dict the page keeps: subtopic -> number
PyDict(obj) == [i \in 1..Len(obj.ps) |-> Pair(obj.ps[i].k, obj.ps[i].v.n)]

start_assessment(label, response_text) ==
    LET prompt         == <<"Let's run a diagnostic assessment on:", label>>
        clean_response == _strip_think(response_text)
    IN  [ message         |-> clean_response,
          history         |-> <<Turn("user", prompt),
                                Turn("assistant", clean_response)>>,
          skill           |-> label,
          complete        |-> FALSE,
          score           |-> NoneInt,
          subtopic_scores |-> <<>>,
          gaps            |-> <<>> ]

\* continue_assessment that stores the reply and not the answer
continue_assessment_DropsAnswer(user_input, history, skill, response_text) ==
    LET clean_response   == _strip_think(response_text)
        parsed_subtopics == _extract_bracketed_json(clean_response, "[SUBTOPIC_SCORES:")
        parsed_gaps      == _extract_bracketed_json(clean_response, "[GAPS:")
    IN  [ message         |-> clean_response,
          history         |-> Append(history, Turn("assistant", clean_response)),
          skill           |-> skill,
          complete        |-> Contains(clean_response, COMPLETE),
          score           |-> ExtractScalar(clean_response, "[ASSESSMENT_SCORE:"),
          question_score  |-> ExtractScalar(clean_response, "[QUESTION_SCORE:"),
          subtopic_scores |-> IF parsed_subtopics.kind = "obj"
                              THEN PyDict(parsed_subtopics) ELSE <<>>,
          gaps            |-> IF parsed_gaps.kind = "arr" THEN parsed_gaps.xs ELSE <<>> ]

\* continue_assessment that looks for the completion marker in the raw reply
continue_assessment_RawComplete(user_input, history, skill, response_text) ==
    LET clean_response   == _strip_think(response_text)
        parsed_subtopics == _extract_bracketed_json(clean_response, "[SUBTOPIC_SCORES:")
        parsed_gaps      == _extract_bracketed_json(clean_response, "[GAPS:")
    IN  [ message         |-> clean_response,
          history         |-> history \o <<Turn("user", user_input),
                                           Turn("assistant", clean_response)>>,
          skill           |-> skill,
          complete        |-> Contains(response_text, COMPLETE),
          score           |-> ExtractScalar(clean_response, "[ASSESSMENT_SCORE:"),
          question_score  |-> ExtractScalar(clean_response, "[QUESTION_SCORE:"),
          subtopic_scores |-> IF parsed_subtopics.kind = "obj"
                              THEN PyDict(parsed_subtopics) ELSE <<>>,
          gaps            |-> IF parsed_gaps.kind = "arr" THEN parsed_gaps.xs ELSE <<>> ]

continue_assessment(user_input, history, skill, response_text) ==
    LET clean_response   == _strip_think(response_text)
        parsed_subtopics == _extract_bracketed_json(clean_response, "[SUBTOPIC_SCORES:")
        parsed_gaps      == _extract_bracketed_json(clean_response, "[GAPS:")
    IN  [ message         |-> clean_response,
          history         |-> history \o <<Turn("user", user_input),
                                           Turn("assistant", clean_response)>>,
          skill           |-> skill,
          complete        |-> Contains(clean_response, COMPLETE),
          score           |-> ExtractScalar(clean_response, "[ASSESSMENT_SCORE:"),
          question_score  |-> ExtractScalar(clean_response, "[QUESTION_SCORE:"),
          subtopic_scores |-> IF parsed_subtopics.kind = "obj"
                              THEN PyDict(parsed_subtopics) ELSE <<>>,
          gaps            |-> IF parsed_gaps.kind = "arr" THEN parsed_gaps.xs ELSE <<>> ]

\* dict.update
RECURSIVE DictUpdate(_, _)
DictUpdate(dict, other) ==
    IF other = <<>> THEN dict
    ELSE LET item == Head(other)
         IN  DictUpdate(IF item.k \in Keys(dict)
                        THEN [dict EXCEPT ![Get(dict, item.k)].v = item.v]
                        ELSE Append(dict, item),
                        Tail(other))

(***************************************************************************)
(* Replies of the assessor model                                           *)
(***************************************************************************)
ScoreMarker(marker, n) == <<marker, Blank, NumTok(n), "/", "100", "]">>

JsonMarker(marker, v) == <<marker, Blank>> \o Dump(v) \o <<"]">>

FinalReply ==
    ScoreMarker("[ASSESSMENT_SCORE:", 55)
    \o JsonMarker("[SUBTOPIC_SCORES:",
                  JObj(<<Pair("JOINs", JNum(40)), Pair("CTEs", JNum(70))>>))
    \o JsonMarker("[GAPS:", JArr(<<JStr(<<"JOINs", ":", "x">>)>>))
    \o <<COMPLETE>>

OpeningReplies == { <<"q1?">>, <<"q1?", COMPLETE>> }

AssessorReplies ==
    { <<"next?">>,
      <<>>,
      ScoreMarker("[QUESTION_SCORE:", 40) \o <<"next?">>,
      ScoreMarker("[QUESTION_SCORE:", 25)
          \o JsonMarker("[SUBTOPIC_SCORES:", JObj(<<Pair("JOINs", JNum(25))>>)),
      JsonMarker("[SUBTOPIC_SCORES:", JObj(<<Pair("CTEs", JNum(85))>>)) \o <<"next?">>,
      FinalReply,
      <<COMPLETE>>,
      <<THINK_OPEN, COMPLETE, THINK_CLOSE, "next?">>,
      <<"next?", THINK_OPEN, COMPLETE>> }

Answers == { <<>>, <<Blank>>, <<"ans">> }

(***************************************************************************)
(* The assessment page: st.session_state and its handlers                  *)
(***************************************************************************)
SessionDefaults ==
    [ quiz_state        |-> "selecting",
      quiz_history      |-> <<>>,
      quiz_skill        |-> "",
      quiz_score        |-> NoneInt,
      quiz_subtopics    |-> <<>>,
      quiz_gaps         |-> <<>>,
      quiz_q_count      |-> 0,
      quiz_last_q_score |-> NoneInt,
      quiz_low_conf     |-> <<>> ]

\* _assess_selecting that keeps the scores the page held
_assess_selecting_KeepsScores(label, response_text) ==
    /\ quiz.quiz_state = "selecting"
    /\ LET result == start_assessment(label, response_text)
       IN  quiz' = [quiz EXCEPT !.quiz_state        = "quizzing",
                                !.quiz_history      = result.history,
                                !.quiz_skill        = result.skill,
                                !.quiz_q_count      = 1,
                                !.quiz_last_q_score = NoneInt]
    /\ UNCHANGED <<data, file, log, flushed, now, inp, out, mem2, vec>>

\* _assess_selecting: the Começar button of a topic
_assess_selecting(label, response_text) ==
    /\ quiz.quiz_state = "selecting"
    /\ LET result == start_assessment(label, response_text)
       IN  quiz' = [ quiz_state        |-> "quizzing",
                     quiz_history      |-> result.history,
                     quiz_skill        |-> result.skill,
                     quiz_score        |-> NoneInt,
                     quiz_subtopics    |-> <<>>,
                     quiz_gaps         |-> <<>>,
                     quiz_q_count      |-> 1,
                     quiz_last_q_score |-> NoneInt,
                     quiz_low_conf     |-> <<>> ]
    /\ UNCHANGED <<data, file, log, flushed, now, inp, out, mem2, vec>>

\* _assess_quizzing: the Sair button
ExitQuiz ==
    /\ quiz.quiz_state = "quizzing"
    /\ quiz' = [quiz EXCEPT !.quiz_state = "selecting"]
    /\ UNCHANGED <<data, file, log, flushed, now, inp, out, mem2, vec>>

\* _assess_quizzing: the low-confidence button
FlagLowConfidence(answer, response_text) ==
    /\ quiz.quiz_state = "quizzing"
    /\ LET flag_text == IF Strip(answer) # <<>>
                        THEN Strip(answer) \o <<"[LOW_CONFIDENCE]">>
                        ELSE <<"[LOW_CONFIDENCE]", "nao me sinto confiante">>
           result    == continue_assessment(flag_text, quiz.quiz_history,
                                           quiz.quiz_skill, response_text)
       IN  quiz' = [quiz EXCEPT
                !.quiz_history      = result.history,
                !.quiz_q_count      = @ + 1,
                !.quiz_last_q_score = Some(LOW_CONF_SCORE),
                !.quiz_low_conf     = Append(@, quiz.quiz_q_count),
                !.quiz_subtopics    = IF result.subtopic_scores # <<>>
                                      THEN DictUpdate(@, result.subtopic_scores)
                                      ELSE @,
                !.quiz_gaps         = IF result.gaps # <<>> THEN result.gaps ELSE @,
                !.quiz_state        = IF result.complete THEN "results" ELSE @]
    /\ UNCHANGED <<data, file, log, flushed, now, inp, out, mem2, vec>>

\* the Submeter button with a handler that scores an unscored turn as zero
SubmitAnswer_DefaultsZero(answer, response_text) ==
    /\ quiz.quiz_state = "quizzing"
    /\ IF Strip(answer) = <<>> THEN UNCHANGED quiz
       ELSE LET result == continue_assessment(answer, quiz.quiz_history,
                                             quiz.quiz_skill, response_text)
            IN  quiz' = [quiz EXCEPT
                    !.quiz_history      = result.history,
                    !.quiz_q_count      = @ + 1,
                    !.quiz_last_q_score = result.question_score,
                    !.quiz_score        = IF result.score.kind = "int"
                                          THEN result.score ELSE @,
                    !.quiz_subtopics    = IF result.subtopic_scores # <<>>
                                          THEN DictUpdate(@, result.subtopic_scores)
                                          ELSE DictUpdate(@, <<Pair("JOINs", 0)>>),
                    !.quiz_gaps         = IF result.gaps # <<>> THEN result.gaps ELSE @,
                    !.quiz_state        = IF result.complete THEN "results" ELSE @]
    /\ UNCHANGED <<data, file, log, flushed, now, inp, out, mem2, vec>>

\* _assess_quizzing: the Submeter button; a blank answer is ignored
SubmitAnswer(answer, response_text) ==
    /\ quiz.quiz_state = "quizzing"
    /\ IF Strip(answer) = <<>> THEN UNCHANGED quiz
       ELSE LET result == continue_assessment(answer, quiz.quiz_history,
                                             quiz.quiz_skill, response_text)
            IN  quiz' = [quiz EXCEPT
                    !.quiz_history      = result.history,
                    !.quiz_q_count      = @ + 1,
                    !.quiz_last_q_score = result.question_score,
                    !.quiz_score        = IF result.score.kind = "int"
                                          THEN result.score ELSE @,
                    !.quiz_subtopics    = IF result.subtopic_scores # <<>>
                                          THEN DictUpdate(@, result.subtopic_scores)
                                          ELSE @,
                    !.quiz_gaps         = IF result.gaps # <<>> THEN result.gaps ELSE @,
                    !.quiz_state        = IF result.complete THEN "results" ELSE @]
    /\ UNCHANGED <<data, file, log, flushed, now, inp, out, mem2, vec>>

InitQuiz ==
    /\ now = 0
    /\ file = NoFile
    /\ data = _load(NoFile)
    /\ log = <<>>
    /\ flushed = <<>>
    /\ inp = Idle
    /\ out = Idle
    /\ quiz = SessionDefaults
    /\ mem2 = Idle
    /\ vec = Idle

MayAnswer == quiz.quiz_q_count <= MaxTurns

NextQuiz ==
    \/ \E r \in OpeningReplies : _assess_selecting("SQL", r)
    \/ \E a \in Answers, r \in AssessorReplies : MayAnswer /\ SubmitAnswer(a, r)
    \/ \E a \in Answers, r \in AssessorReplies : MayAnswer /\ FlagLowConfidence(a, r)
    \/ ExitQuiz

SpecQuiz == InitQuiz /\ [][NextQuiz]_vars

(***************************************************************************)
(* Properties of the assessment session                                    *)
(***************************************************************************)
LastReply(q) == q.quiz_history[Len(q.quiz_history)].content

\* C5: a turn of the quiz ends the session (quizzing -> results) exactly when
\* the reply stored for that turn contains [ASSESSMENT_COMPLETE]; the opening
\* reply never does, and results is entered in no other way.
C5_CompleteIffMarker ==
    [][ /\ (quiz.quiz_state = "quizzing" /\ quiz'.quiz_history # quiz.quiz_history)
            => (quiz'.quiz_state = "results" <=> Contains(LastReply(quiz'), COMPLETE))
        /\ (quiz'.quiz_state = "results" /\ quiz.quiz_state # "results")
            => (quiz.quiz_state = "quizzing" /\ quiz'.quiz_history # quiz.quiz_history)
        /\ (quiz.quiz_state = "selecting" /\ quiz' # quiz)
            => quiz'.quiz_state = "quizzing" ]_vars

\* the opening reply carried the marker, the first turn did not, the second
\* turn did and ended the session
C5_Witness ==
    /\ quiz.quiz_state = "results"
    /\ Len(quiz.quiz_history) = 6
    /\ Contains(quiz.quiz_history[2].content, COMPLETE)
    /\ ~Contains(quiz.quiz_history[4].content, COMPLETE)
    /\ Contains(quiz.quiz_history[6].content, COMPLETE)

\* C9: after a turn flagged as low confidence the accumulated subtopic-score
\* map holds a score of 25.
C9_LowConfidenceRecords25 ==
    (quiz.quiz_low_conf # <<>>
     /\ quiz.quiz_low_conf[Len(quiz.quiz_low_conf)] = quiz.quiz_q_count - 1)
        => \E i \in 1..Len(quiz.quiz_subtopics) : quiz.quiz_subtopics[i].v = 25

(***************************************************************************)
(* build_context_prompt applied to stores of every size                    *)
(***************************************************************************)
StoredNames ==
    <<"sql", "dax", "python", "spark", "azure", "fabric", "pandas", "polars",
      "delta", "synapse", "rbac", "etl">>

\* list lengths tried for a list of which the prompt shows `shown` entries
Lengths(shown) == {0, shown, shown + 1, MaxStored}

SkillsOf(n) == [i \in 1..n |-> [name |-> StoredNames[i], level |-> "beginner"]]

CompletedOf(n) ==
    [i \in 1..n |-> [name |-> StoredNames[i], score |-> 85, completed_at |-> 0]]

NotesOf(n) == [i \in 1..n |-> [date |-> 0, note |-> StoredNames[i]]]

SummariesOf(n) ==
    [i \in 1..n |-> [date |-> 0, type |-> "learning",
                     summary |-> <<"Completed", StoredNames[i], "85">>,
                     key_insights |-> <<>>]]

GoalsOf(n) == [i \in 1..n |-> StoredNames[i]]

Profiles ==
    { _default_structure.profile,
      [ name |-> "Ana", email |-> None, location |-> "Lisboa",
        years_experience |-> 7,
        current_role |-> "Analyst", target_role |-> "Data Engineer" ] }

StoreContents ==
    { [_default_structure EXCEPT
          !.profile = pr,
          !.skills = [ current   |-> SkillsOf(cu),
                       learning  |-> SkillsOf(le),
                       completed |-> CompletedOf(co),
                       targets   |-> <<>> ],
          !.mentor_notes = NotesOf(no),
          !.session_summaries = SummariesOf(su),
          !.preferences.career_goals = GoalsOf(go)] :
      pr \in Profiles,
      cu \in Lengths(SKILLS_SHOWN), le \in Lengths(SKILLS_SHOWN),
      co \in Lengths(COMPLETED_SHOWN), no \in Lengths(NOTES_SHOWN),
      su \in Lengths(SESSIONS_SHOWN), go \in Lengths(GOALS_SHOWN) }

InitPrompt ==
    /\ now = 0
    /\ data \in StoreContents
    /\ file = [exists |-> TRUE, content |-> data]
    /\ log = <<>>
    /\ flushed = <<>>
    /\ quiz = Idle
    /\ mem2 = Idle
    /\ vec = Idle
    /\ inp = Idle
    /\ out = NotRun

CallBuildContextPrompt == Return(None, build_context_prompt(data))

SpecPrompt == InitPrompt /\ [][CallBuildContextPrompt]_vars

\* the number of stored entries a line may render
ClaimedLimit(label) ==
    CASE label = "Current skills"            -> 8
      [] label = "Recently validated skills" -> 5
      [] label = "Mentor notes"              -> 3
      [] label = "Recent sessions"           -> 2
      [] label = "Career goals"              -> 3
      [] OTHER                               -> 8

\* C10: the prompt renders at most 8 current skills, 5 completed skills,
\* 3 notes, 2 session summaries and 3 career goals, and no line renders a
\* number of stored entries that grows with a stored list: none renders more
\* than 8, the largest of the stated limits.
C10_BoundedPrompt ==
    out.done =>
        \A i \in 1..Len(out.val) :
            Len(out.val[i].items) <= ClaimedLimit(out.val[i].label)

(***************************************************************************)
(* The gateway call inside start_assessment and continue_assessment        *)
(***************************************************************************)
\* what client.chat.completions.create does: it answers with a message
\* whose content is a text or null, or it raises (timeout, connection error,
\* an answer without choices)
Content(text) == [kind |-> "content", text |-> text]

NullContent == [kind |-> "null_content", text |-> <<>>]

GatewayFailures ==
    { [kind |-> k, text |-> <<>>] : k \in {"timeout", "api_error", "no_choices"} }

\* chat: response.choices[0].message.content or "", nothing is caught
chat(outcome) ==
    IF outcome.kind = "content" THEN [raised |-> FALSE, text |-> outcome.text]
    ELSE IF outcome.kind = "null_content" THEN [raised |-> FALSE, text |-> <<>>]
    ELSE [raised |-> TRUE, text |-> <<>>]

Raises == [raised |-> TRUE, envelope |-> <<>>]

Returns(envelope) == [raised |-> FALSE, envelope |-> envelope]

\* start_assessment(topic) with the gateway answering outcome
StartTurn(label, outcome) ==
    LET response == chat(outcome)
    IN  IF response.raised THEN Raises
        ELSE Returns(start_assessment(label, response.text))

\* continue_assessment(user_input, history, skill) with the gateway
\* answering outcome
ContinueTurn(user_input, history, skill, outcome) ==
    LET response == chat(outcome)
    IN  IF response.raised THEN Raises
        ELSE Returns(continue_assessment(user_input, history, skill, response.text))

GatewayAlphabet == {COMPLETE, "[QUESTION_SCORE:", "7", "]", "a"}

GatewayOutcomes ==
    GatewayFailures \cup {NullContent}
    \cup {Content(t) : t \in Texts(GatewayAlphabet, MaxReplyLen)}

GatewayCalls ==
    { [call |-> c, outcome |-> o] :
      c \in {"start_assessment", "continue_assessment"}, o \in GatewayOutcomes }

CallAssessment ==
    Return(inp.call,
           IF inp.call = "start_assessment"
           THEN StartTurn("SQL", inp.outcome)
           ELSE ContinueTurn(<<"a">>, <<>>, "SQL", inp.outcome))

SpecGateway == InitFunction(GatewayCalls) /\ [][CallAssessment]_vars

\* C18: whatever the gateway does, start_assessment and continue_assessment
\* return an envelope; when the gateway failed or sent nothing the envelope
\* has no score, an empty subtopic map, no gaps, complete false and an
\* empty message.
C18_GatewayFailureNotFatal ==
    out.done
    => /\ ~out.val.raised
       /\ inp.outcome.kind # "content"
          => /\ out.val.envelope.complete = FALSE
             /\ out.val.envelope.score = NoneInt
             /\ out.val.envelope.subtopic_scores = <<>>
             /\ out.val.envelope.gaps = <<>>
             /\ out.val.envelope.message = <<>>

(***************************************************************************)
(* VectorMemory                                                            *)
(***************************************************************************)
\* vec holds the process environment (which packages can be imported), the
\* chroma directory of the user with the documents of its collection, and
\* the fields of the VectorMemory instance; out is the last call

\* a call's return value is in the field of its type: flag (add_memory),
\* number (count), list (retrieve, build_episodic_context)
NoCall == [op |-> "none", raised |-> FALSE, flag |-> FALSE, number |-> 0,
           list |-> <<>>]

ReturnsFlag(op, flag) == [NoCall EXCEPT !.op = op, !.flag = flag]

ReturnsNumber(op, number) == [NoCall EXCEPT !.op = op, !.number = number]

ReturnsList(op, list) == [NoCall EXCEPT !.op = op, !.list = list]

\* a new process, possibly in another environment, over the same directory
Restart(chromadb, sentence_transformers) ==
    /\ vec' = [vec EXCEPT !.chromadb = chromadb,
                          !.sentence_transformers = sentence_transformers,
                          !._collection = "unset",
                          !._encoder = None]
    /\ out' = NoCall
    /\ UNCHANGED <<data, file, log, flushed, now, inp, quiz, mem2>>

\* VectorMemory(user_id): _get_collection makes the directory and the
\* collection when chromadb can be imported, else the collection is None
VectorMemory ==
    /\ vec._collection = "unset"
    /\ vec' = IF vec.chromadb
              THEN [vec EXCEPT !.dir = TRUE, !._collection = "open"]
              ELSE [vec EXCEPT !._collection = None]
    /\ out' = ReturnsList("__init__", <<>>)
    /\ UNCHANGED <<data, file, log, flushed, now, inp, quiz, mem2>>

available == vec._collection # None

\* _encode: the encoder is loaded on first use; None when
\* sentence_transformers cannot be imported
CanEncode == vec._encoder # None \/ vec.sentence_transformers

add_memory(content, memory_type) ==
    /\ vec._collection # "unset"
    /\ IF ~available
       THEN /\ out' = ReturnsFlag("add_memory", FALSE)
            /\ vec' = vec
       ELSE IF ~CanEncode
       THEN /\ out' = ReturnsFlag("add_memory", FALSE)
            /\ vec' = vec
       ELSE /\ out' = ReturnsFlag("add_memory", TRUE)
            /\ vec' = [vec EXCEPT !._encoder = "loaded",
                                  !.docs = Append(@, [content |-> content,
                                                      type |-> memory_type,
                                                      timestamp |-> now])]
    /\ UNCHANGED <<data, file, log, flushed, now, inp, quiz, mem2>>

\* the memories retrieve returns: at most min(top_k, count or 1) documents
Retrieved(top_k) ==
    LET count_or_1 == IF Len(vec.docs) = 0 THEN 1 ELSE Len(vec.docs)
        n_results  == IF top_k < count_or_1 THEN top_k ELSE count_or_1
    IN  FirstN(vec.docs, n_results)

RetrieveResult(top_k) ==
    IF ~available THEN <<>>
    ELSE IF ~CanEncode THEN <<>>
    ELSE Retrieved(top_k)

retrieve(query, top_k) ==
    /\ vec._collection # "unset"
    /\ out' = ReturnsList("retrieve", RetrieveResult(top_k))
    /\ vec' = IF available /\ CanEncode THEN [vec EXCEPT !._encoder = "loaded"]
              ELSE vec
    /\ UNCHANGED <<data, file, log, flushed, now, inp, quiz, mem2>>

\* the lines between the two rulers; "" when nothing was retrieved
build_episodic_context(query, top_k) ==
    /\ vec._collection # "unset"
    /\ LET memories == RetrieveResult(top_k)
       IN  out' = ReturnsList("build_episodic_context",
                         [i \in 1..Len(memories) |->
                             <<memories[i].type, memories[i].content>>])
    /\ vec' = IF available /\ CanEncode THEN [vec EXCEPT !._encoder = "loaded"]
              ELSE vec
    /\ UNCHANGED <<data, file, log, flushed, now, inp, quiz, mem2>>

\* count: 0 when the collection is None, else the collection's count
count ==
    /\ vec._collection # "unset"
    /\ out' = ReturnsNumber("count", IF ~available THEN 0 ELSE Len(vec.docs))
    /\ vec' = vec
    /\ UNCHANGED <<data, file, log, flushed, now, inp, quiz, mem2>>

InitVector ==
    /\ now = 0
    /\ file = NoFile
    /\ data = _load(NoFile)
    /\ log = <<>>
    /\ flushed = <<>>
    /\ inp = Idle
    /\ quiz = Idle
    /\ mem2 = Idle
    /\ out = NoCall
    /\ vec \in { [chromadb |-> c, sentence_transformers |-> e, dir |-> FALSE,
                  docs |-> <<>>, _collection |-> "unset", _encoder |-> None] :
                 c \in BOOLEAN, e \in BOOLEAN }

NextVector ==
    \/ \E c \in BOOLEAN, e \in BOOLEAN : Restart(c, e)
    \/ VectorMemory
    \/ \E content \in {"c1", "c2"} :
            Len(vec.docs) < MaxDocs /\ add_memory(content, "session")
    \/ \E k \in {1, 4} : retrieve("q", k)
    \/ build_episodic_context("q", 4)
    \/ count

SpecVector == InitVector /\ [][NextVector]_vars

Stored(v) == <<v.dir, v.docs>>

\* C19: in a process where chromadb or sentence_transformers cannot be
\* imported, add_memory returns False, retrieve returns [], count returns 0
\* and build_episodic_context returns "", none of them raises and none of
\* them changes what is stored.
C19_DegradesWhenNotInstalled ==
    [][ (out'.op \in {"add_memory", "retrieve", "count", "build_episodic_context"}
           /\ ~(vec.chromadb /\ vec.sentence_transformers))
        => /\ ~out'.raised
           /\ Stored(vec') = Stored(vec)
           /\ out'.flag = FALSE
           /\ out'.number = 0
           /\ out'.list = <<>> ]_vars

(***************************************************************************)
(* The results state of the assessment page and the store's assessment     *)
(* history                                                                 *)
(***************************************************************************)
\* get_assessment_history: the stored records, oldest first
get_assessment_history(d) ==
    IF "assessment_history" \in DOMAIN d THEN d.assessment_history ELSE <<>>

\* save_assessment appends one record to the assessment history and leaves
\* the skill ledger alone
AssessmentSaved(d, skill, score, subtopic_scores, gap_entries) ==
    LET record == [ skill           |-> skill,
                    overall_score   |-> score,
                    subtopic_scores |-> subtopic_scores,
                    gaps            |-> gap_entries,
                    assessed_at     |-> now ]
    IN  [k \in DOMAIN d \cup {"assessment_history"} |->
            IF k = "assessment_history"
            THEN Append(get_assessment_history(d), record)
            ELSE d[k]]

\* quiz_score or 0
ScoreOrZero(score) == IF score.kind = "int" THEN score.val ELSE 0

\* st.session_state["page"]
OnPage(page) == [page |-> page]

\* _assess_results, the Guardar button, with a handler that leaves the
\* session in the results state
SaveResults_StaysInResults ==
    /\ inp = OnPage("assessment")
    /\ quiz.quiz_state = "results"
    /\ LET skill       == quiz.quiz_skill
           score       == ScoreOrZero(quiz.quiz_score)
           gap_entries == build_gap_entries(skill, quiz.quiz_subtopics,
                                            quiz.quiz_gaps, score)
           d1 == Stamp(AssessmentSaved(data, skill, score, quiz.quiz_subtopics,
                                       gap_entries))
       IN  /\ data'    = d1
           /\ file'    = [exists |-> TRUE, content |-> d1]
           /\ flushed' = <<d1>>
    /\ UNCHANGED <<quiz, log, now, inp, out, mem2, vec>>

\* _assess_results, the Guardar button: build_gap_entries, save_assessment,
\* add_session_summary, then quiz_state = "selecting"
SaveResults ==
    /\ inp = OnPage("assessment")
    /\ quiz.quiz_state = "results"
    /\ LET skill       == quiz.quiz_skill
           score       == ScoreOrZero(quiz.quiz_score)
           gap_entries == build_gap_entries(skill, quiz.quiz_subtopics,
                                            quiz.quiz_gaps, score)
           d1 == Stamp(AssessmentSaved(data, skill, score, quiz.quiz_subtopics,
                                       gap_entries))
           d2 == Stamp(SummaryAdded(d1, "assessment",
                           <<"Diagnostico", skill, NumTok(score), "/", "100">>,
                           << <<"Score", NumTok(score), "/", "100">>,
                              <<NumTok(Len(gap_entries)), "lacunas">> >>))
       IN  /\ data'    = d2
           /\ file'    = [exists |-> TRUE, content |-> d2]
           /\ flushed' = <<d1, d2>>
    /\ quiz' = [quiz EXCEPT !.quiz_state = "selecting"]
    /\ UNCHANGED <<log, now, inp, out, mem2, vec>>

\* _nav: the navigation bar, and the Ver Progresso button of the results
_nav(page) ==
    /\ inp' = OnPage(page)
    /\ UNCHANGED <<data, file, log, flushed, now, out, quiz, mem2, vec>>

Pages == {"welcome", "assessment", "progress", "chat"}

PageReplies ==
    { <<"next?">>, <<COMPLETE>>, FinalReply,
      ScoreMarker("[ASSESSMENT_SCORE:", 40)
          \o JsonMarker("[SUBTOPIC_SCORES:", JObj(<<Pair("JOINs", JNum(25))>>))
          \o <<"next?">> }

InitPage ==
    /\ now = 0
    /\ file = NoFile
    /\ data = _load(NoFile)
    /\ log = <<>>
    /\ flushed = <<>>
    /\ inp = OnPage("welcome")
    /\ out = Idle
    /\ quiz = SessionDefaults
    /\ mem2 = Idle
    /\ vec = Idle

MaySave == Len(get_assessment_history(data)) < MaxAssessments

NextPage ==
    \/ \E page \in Pages : _nav(page)
    \/ inp = OnPage("assessment") /\ MaySave /\ _assess_selecting("SQL", <<"q1?">>)
    \/ \E r \in PageReplies :
            inp = OnPage("assessment") /\ MayAnswer /\ SubmitAnswer(<<"ans">>, r)
    \/ \E r \in PageReplies :
            inp = OnPage("assessment") /\ MayAnswer /\ FlagLowConfidence(<<"ans">>, r)
    \/ inp = OnPage("assessment") /\ ExitQuiz
    \/ SaveResults

SpecPage == InitPage /\ [][NextPage]_vars

\* a user who never stops pressing buttons
SpecPageLive == SpecPage /\ WF_vars(NextPage)

LastAssessment(d) == get_assessment_history(d)[Len(get_assessment_history(d))]

AssistantTurns(history) ==
    { history[i].content : i \in {j \in 1..Len(history) : history[j].role = "assistant"} }

\* what the page holds of a session can be read off that session's transcript
FromTranscript(q) ==
    /\ q.quiz_score.kind = "int"
        => \E text \in AssistantTurns(q.quiz_history) :
                ExtractScalar(text, "[ASSESSMENT_SCORE:") = q.quiz_score
    /\ \A i \in 1..Len(q.quiz_subtopics) :
            \E text \in AssistantTurns(q.quiz_history) :
                LET parsed == _extract_bracketed_json(text, "[SUBTOPIC_SCORES:")
                IN  /\ parsed.kind = "obj"
                    /\ q.quiz_subtopics[i] \in Range(PyDict(parsed))
    /\ q.quiz_gaps # <<>>
        => \E text \in AssistantTurns(q.quiz_history) :
                LET parsed == _extract_bracketed_json(text, "[GAPS:")
                IN  parsed.kind = "arr" /\ parsed.xs = q.quiz_gaps

\* C21: starting a session, answering and leaving it write nothing to the
\* user's record, file or audit log; a session that starts holds no score,
\* subtopic, gap, flag or turn of an earlier one, so that whatever a running
\* or finished session holds, and save_assessment is given, comes from its
\* own transcript.
C21_DiscardedSessionLeavesNoTrace ==
    [][ /\ quiz.quiz_state # "results" => UNCHANGED <<data, file, log>>
        /\ (quiz.quiz_state = "selecting" /\ quiz'.quiz_state = "quizzing")
            => /\ quiz'.quiz_score = NoneInt
               /\ quiz'.quiz_subtopics = <<>>
               /\ quiz'.quiz_gaps = <<>>
               /\ quiz'.quiz_low_conf = <<>>
               /\ Len(quiz'.quiz_history) = 2
        /\ quiz'.quiz_state \in {"quizzing", "results"} => FromTranscript(quiz')
        /\ get_assessment_history(data') # get_assessment_history(data)
            => /\ LastAssessment(data').subtopic_scores = quiz.quiz_subtopics
               /\ FromTranscript(quiz) ]_vars

\* a session that had an overall score of 40 and a subtopic score was left
\* with the exit button, before anything was ever saved
C21_Witness ==
    /\ quiz.quiz_state = "selecting"
    /\ quiz.quiz_score = Some(40)
    /\ quiz.quiz_subtopics # <<>>
    /\ file = NoFile
    /\ log = <<>>

(***************************************************************************)
(* The length of the interview                                             *)
(***************************************************************************)
\* an assessor that asks on, and one that ends the interview
InterviewReplies == { <<"next?">>, <<COMPLETE>> }

MayGoOn == quiz.quiz_q_count <= MaxInterview

NextInterview ==
    \/ _assess_selecting("SQL", <<"q1?">>)
    \/ \E r \in InterviewReplies : MayGoOn /\ SubmitAnswer(<<"ans">>, r)
    \/ \E r \in InterviewReplies : MayGoOn /\ FlagLowConfidence(<<"ans">>, r)
    \/ ExitQuiz

SpecInterview == InitQuiz /\ [][NextInterview]_vars

\* C22: a session that is still in the quizzing state has made at most as
\* many continue_assessment calls as the interview has questions.
C22_InterviewIsBounded ==
    quiz.quiz_state = "quizzing" => quiz.quiz_q_count - 1 <= QUIZ_QUESTIONS

(***************************************************************************)
(* Completion before every declared subtopic has a score                   *)
(***************************************************************************)
\* ASSESSMENT_TOPICS: the subtopics declared for a topic label
Subtopics(label) ==
    IF label = "SQL"
    THEN {"JOINs", "Window Functions", "CTEs", "Indexes", "Query Optimisation"}
    ELSE {}

Unscored(q) == Subtopics(q.quiz_skill) \ Keys(q.quiz_subtopics)

\* C23: a turn that ends the session while a declared subtopic has no
\* recorded score writes a record of the violation to the log (and the
\* session still ends).
C23_EarlyCompletionIsLogged ==
    [][ (quiz.quiz_state = "quizzing" /\ quiz'.quiz_state = "results"
           /\ Unscored(quiz') # {})
        => Len(log') > Len(log) ]_vars

(***************************************************************************)
(* A consolidation whose writes fail                                       *)
(***************************************************************************)
\* the replies that a consolidation on a writable directory stores and
\* flushes without error
FlushedReplies ==
    { r \in Replies :
        LET run == extract_and_consolidate("ok", "mentor_chat",
                        Running(_load(NoFile), NoFile, <<>>), r, <<"ml", "ds">>, TRUE)
        IN  r.kind = "result" /\ ~run.ret.error /\ run.st.file.exists }

\* C24: a consolidation that reached its writes while the directory could
\* not be written ends in an exception at its caller.
C24_FlushFailureReachesCaller ==
    (out.runs > 0 /\ ~out.disk /\ out.transcript = "ok" /\ out.reply \in FlushedReplies)
        => out.raised

(***************************************************************************)
(* Turns without a score                                                   *)
(***************************************************************************)
\* neither scalar marker nor the subtopic object parses in the stored reply
NoParsedScore(text) ==
    /\ ExtractScalar(text, "[QUESTION_SCORE:") = NoneInt
    /\ ExtractScalar(text, "[ASSESSMENT_SCORE:") = NoneInt
    /\ _extract_bracketed_json(text, "[SUBTOPIC_SCORES:").kind # "obj"

Reported(q, entry) ==
    \E text \in AssistantTurns(q.quiz_history) :
        LET parsed == _extract_bracketed_json(text, "[SUBTOPIC_SCORES:")
        IN  parsed.kind = "obj" /\ entry \in Range(PyDict(parsed))

\* C25: a turn whose reply yields no parsed score leaves the accumulated
\* subtopic map and the overall score as they were and shows no question
\* score of its own (continue_assessment returned an empty delta and None);
\* every entry of the map, a zero included, is one the model reported.
C25_NoScoreAddsNothing ==
    [][ /\ (quiz.quiz_state = "quizzing" /\ quiz'.quiz_history # quiz.quiz_history
              /\ NoParsedScore(LastReply(quiz')))
            => /\ quiz'.quiz_subtopics = quiz.quiz_subtopics
               /\ quiz'.quiz_score = quiz.quiz_score
               /\ quiz'.quiz_last_q_score \in {NoneInt, Some(LOW_CONF_SCORE)}
               /\ quiz'.quiz_last_q_score = Some(LOW_CONF_SCORE)
                    => Len(quiz'.quiz_low_conf) > Len(quiz.quiz_low_conf)
        /\ \A i \in 1..Len(quiz'.quiz_subtopics) :
                Reported(quiz', quiz'.quiz_subtopics[i]) ]_vars

\* the first answer brought a subtopic score, the second answer was submitted
\* normally and its reply carried no score
C25_Witness ==
    /\ quiz.quiz_state = "quizzing"
    /\ Len(quiz.quiz_history) = 6
    /\ quiz.quiz_subtopics # <<>>
    /\ quiz.quiz_low_conf = <<>>
    /\ NoParsedScore(LastReply(quiz))
    /\ quiz.quiz_last_q_score = NoneInt

(***************************************************************************)
(* Priorities of the gap entries                                           *)
(***************************************************************************)
\* C26: the entries carry the priorities 1, 2, ..., n in that order, their
\* scores never decrease as the priority grows, and a map with one subtopic
\* at 40 and every other at 70 or more gives exactly one entry, of priority
\* 1, for the subtopic at 40.
C26_PrioritiesRankByScore ==
    out.done =>
        /\ \A p \in 1..Len(out.val) : out.val[p].priority = p
        /\ \A p, q \in 1..Len(out.val) :
                p < q => out.val[p].assessed_score <= out.val[q].assessed_score
        /\ \A i \in 1..Len(inp.subtopic_scores) :
                (/\ inp.subtopic_scores[i].v = 40
                 /\ \A j \in 1..Len(inp.subtopic_scores) :
                        j # i => inp.subtopic_scores[j].v >= 70)
                => /\ Len(out.val) = 1
                   /\ out.val[1].priority = 1
                   /\ out.val[1].skill = <<inp.skill, inp.subtopic_scores[i].k>>
                   /\ out.val[1].assessed_score = 40

\* the map listed a subtopic at 69 before one at 40: the one at 40 came out
\* first
C26_Witness ==
    /\ out.done
    /\ Len(inp.subtopic_scores) = 2
    /\ inp.subtopic_scores[1].v = 69
    /\ inp.subtopic_scores[2].v = 40
    /\ Len(out.val) = 2
    /\ out.val[1].assessed_score = 40
    /\ out.val[2].priority = 2

(***************************************************************************)
(* The overall score held on entering the results                          *)
(***************************************************************************)
\* C27: the turn that ends the session leaves in quiz_score the
\* ASSESSMENT_SCORE its reply carries, whichever button submitted it.
C27_ResultsHoldCompletingScore ==
    [][ (quiz.quiz_state = "quizzing" /\ quiz'.quiz_state = "results"
           /\ ExtractScalar(LastReply(quiz'), "[ASSESSMENT_SCORE:").kind = "int")
        => quiz'.quiz_score = ExtractScalar(LastReply(quiz'), "[ASSESSMENT_SCORE:") ]_vars

(***************************************************************************)
(* The range of the scores                                                 *)
(***************************************************************************)
\* C28: a question score or overall score parsed from a reply lies in 0..100.
C28_ScoresWithinRange ==
    (out.done /\ out.val.kind = "int") => (0 <= out.val.val /\ out.val.val <= 100)

(***************************************************************************)
(* The completed bucket                                                    *)
(***************************************************************************)
IsPrefix(earlier, later) ==
    /\ Len(earlier) <= Len(later)
    /\ SubSeq(later, 1, Len(earlier)) = earlier

\* C29: every operation of the store leaves the completed list it found as a
\* prefix of the completed list it leaves, in memory and in memory.json: an
\* entry, once written, keeps its name, score and timestamp and its place.
C29_CompletedIsAppendOnly ==
    [][ /\ IsPrefix(data.skills.completed, data'.skills.completed)
        /\ file.exists
            => /\ file'.exists
               /\ IsPrefix(file.content.skills.completed,
                           file'.content.skills.completed) ]_vars

\* a skill was completed, then update_skills replaced the current skills:
\* the completed entry is still there
C29_Witness ==
    /\ Len(log) = 2
    /\ log[1].type = "skill_completed"
    /\ log[2].type = "skills_update"
    /\ data.skills.current # <<>>
    /\ Len(data.skills.completed) = 1
    /\ data.skills.completed[1].score = 85
    /\ file.content.skills.completed = data.skills.completed

(***************************************************************************)
(* The transcript                                                          *)
(***************************************************************************)
Alternating(history) ==
    \A i \in 1..Len(history) :
        history[i].role = IF i % 2 = 1 THEN "user" ELSE "assistant"

\* C30: start_assessment gives two turns, user then assistant; every answer
\* keeps the transcript it found as a prefix and adds two turns, the user's
\* and then the assistant's; so the transcript of a session alternates
\* between user and assistant, and the question counter is half its length.
C30_TranscriptIsAppendOnly ==
    [][ /\ (quiz.quiz_state = "selecting" /\ quiz'.quiz_state = "quizzing")
            => /\ Len(quiz'.quiz_history) = 2
               /\ quiz'.quiz_q_count = 1
        /\ (quiz.quiz_state = "quizzing" /\ quiz'.quiz_history # quiz.quiz_history)
            => /\ IsPrefix(quiz.quiz_history, quiz'.quiz_history)
               /\ Len(quiz'.quiz_history) = Len(quiz.quiz_history) + 2
               /\ quiz'.quiz_q_count = quiz.quiz_q_count + 1
        /\ quiz'.quiz_state \in {"quizzing", "results"}
            => /\ Alternating(quiz'.quiz_history)
               /\ 2 * quiz'.quiz_q_count = Len(quiz'.quiz_history) ]_vars

\* a session after two answers, one of them flagged as low confidence
C30_Witness ==
    /\ quiz.quiz_state = "quizzing"
    /\ Len(quiz.quiz_history) = 6
    /\ quiz.quiz_q_count = 3
    /\ Len(quiz.quiz_low_conf) = 1
    /\ quiz.quiz_history[5].content = <<"ans">>

====
